---- MODULE Spec2Model ----
(***************************************************************************)
(* Model of isoengine: the loose octree (src/src/scene/octree.rs) with the  *)
(* bounding-cube helpers it uses, the entity manager generated by          *)
(* make_ecs! (src/src/entity/macros.rs), the generic entity and its event  *)
(* bus (src/src/scene/entity.rs), the resource databases                   *)
(* (src/src/system/db.rs, src/src/grafix/sprite.rs) and the asset database *)
(* of the client (src/src/asset/client.rs).                                *)
(*                                                                         *)
(* Lengths (Meters, an f32) are modelled by integers in units of half a    *)
(* meter.  Every value the model produces is an integer of small magnitude *)
(* and every halving is applied to an even number, so the f32 arithmetic   *)
(* of the program is exact on the modelled values.                         *)
(*                                                                         *)
(* Spec takes a whole call of insert or adjust as one step.  StepSpec     *)
(* runs the same code with one invocation of get_node's body per step     *)
(* (`cur` holds the argument of the pending invocation); it is the         *)
(* specification under which termination is examined.  EcsSpec, GeSpec    *)
(* and DbSpec are the specifications of the entity manager, of the         *)
(* generic entity and of the databases; the objects share no state.        *)
(* FnSpec applies the helper functions of the octree (as_vector, octant,   *)
(* get_child, make_parent_toward, free_node) to bounded inputs and to the  *)
(* trees insert and adjust build, and records each application in fn_call. *)
(* AssetSpec is the specification of the asset database.                   *)
(***************************************************************************)
EXTENDS Integers, Sequences, FiniteSets, TLC

\* the loose octree (scene/octree.rs)
VARIABLES root, nodes, entries, min_dist, pc, call, cur, pre

\* the entity manager (entity/macros.rs)
VARIABLES next_id, systems, components, ecs_pc, iter_next, iter_rest,
          next_entity, invoked, visit_order, views_ok

\* a generic entity (scene/entity.rs)
VARIABLES bus, ge_components, ge_pc, ge_i, ge_event, ge_fired, ge_log

\* the resource databases (system/db.rs, grafix/sprite.rs)
VARIABLES debug_assertions, name2id, id2elem, id2name, db_pc, db_call

\* the last application of one of the octree's helper functions
VARIABLES fn_call

\* the asset database of the client (asset/client.rs)
VARIABLES by_name, by_id, handles, asset_pc, asset_call

octree_vars == <<root, nodes, entries, min_dist, pc, call, cur, pre>>

ecs_vars == <<next_id, systems, components, ecs_pc, iter_next, iter_rest,
              next_entity, invoked, visit_order, views_ok>>

ge_vars == <<bus, ge_components, ge_pc, ge_i, ge_event, ge_fired, ge_log>>

db_vars == <<debug_assertions, name2id, id2elem, id2name, db_pc, db_call>>

fn_vars == <<fn_call>>

asset_vars == <<by_name, by_id, handles, asset_pc, asset_call>>

vars == <<octree_vars, ecs_vars, ge_vars, db_vars, fn_vars, asset_vars>>

\* what the operations of one object leave alone: the other objects
beside_octree == <<ecs_vars, ge_vars, db_vars, fn_vars, asset_vars>>

beside_ecs == <<octree_vars, ge_vars, db_vars, fn_vars, asset_vars>>

beside_ge == <<octree_vars, ecs_vars, db_vars, fn_vars, asset_vars>>

beside_db == <<octree_vars, ecs_vars, ge_vars, fn_vars, asset_vars>>

beside_fn == <<octree_vars, ecs_vars, ge_vars, db_vars, asset_vars>>

beside_asset == <<octree_vars, ecs_vars, ge_vars, db_vars, fn_vars>>

----------------------------------------------------------------------------
(* Bounds of the model *)

\* largest number of nodes the arena may hold; a call that would allocate
\* beyond it stops the run (pc = "capped")
MaxNodes == 4

\* largest number of entries inserted
MaxEntries == 2

----------------------------------------------------------------------------
(* Values *)

\* The u32 operator `!` (bitwise complement).  A u32 pattern is written as the
\* 32-bit two's-complement integer with the same bits, so !x is -1 - x and the
\* pattern 0 is the integer 0.
Not32(x) == -1 - x

\* Option<NodeID>::None: NodeID wraps a NonZero<u32>, the absent id is the
\* pattern 0
None == 0

\* Option<Octant>::None
NoOctant == -1

\* NodeID(NonZero::new(!idx))
NodeIDOf(idx) == Not32(idx)

\* as_index keeping only the low 16 bits of the complement
as_index_Low16(id) == Not32(id) % 65536

\* NodeID::as_index
as_index(id) == Not32(id)

S0 == 0
SX == 1
SY == 2
SZ == 4

Octants == 0..7

vec3(x, y, z) == [x |-> x, y |-> y, z |-> z]

VAdd(a, b) == vec3(a.x + b.x, a.y + b.y, a.z + b.z)

VSub(a, b) == vec3(a.x - b.x, a.y - b.y, a.z - b.z)

scaled(v, k) == vec3(v.x * k, v.y * k, v.z * k)

Abs(x) == IF x < 0 THEN -x ELSE x

\* Octant::as_vector, as the match in the source is written
as_vector(o) ==
    CASE o = 0 -> vec3(-1, -1, -1)
      [] o = 4 -> vec3( 1, -1, -1)
      [] o = 2 -> vec3(-1,  1, -1)
      [] o = 1 -> vec3(-1, -1,  1)
      [] o = 6 -> vec3( 1,  1, -1)
      [] o = 5 -> vec3( 1, -1,  1)
      [] o = 3 -> vec3(-1,  1,  1)
      [] o = 7 -> vec3( 1,  1,  1)

BoundingCube(c, h) == [center |-> c, half_edge |-> h]

\* BoundingCube::octant with a point on a centre plane sent to the set side
octant_TiesSet(bcube, v) ==
    LET diff == VSub(v, bcube.center) IN
    IF Abs(diff.x) > bcube.half_edge THEN NoOctant
    ELSE IF Abs(diff.y) > bcube.half_edge THEN NoOctant
    ELSE IF Abs(diff.z) > bcube.half_edge THEN NoOctant
    ELSE (IF diff.x >= 0 THEN SX ELSE S0)
       + (IF diff.y >= 0 THEN SY ELSE S0)
       + (IF diff.z >= 0 THEN SZ ELSE S0)

\* BoundingCube::octant
octant(bcube, v) ==
    LET diff == VSub(v, bcube.center) IN
    IF Abs(diff.x) > bcube.half_edge THEN NoOctant
    ELSE IF Abs(diff.y) > bcube.half_edge THEN NoOctant
    ELSE IF Abs(diff.z) > bcube.half_edge THEN NoOctant
    ELSE (IF diff.x > 0 THEN SX ELSE S0)
       + (IF diff.y > 0 THEN SY ELSE S0)
       + (IF diff.z > 0 THEN SZ ELSE S0)

\* BoundingCube::contains
contains(bcube, v) ==
    LET diff == VSub(v, bcube.center) IN
    /\ Abs(diff.x) < bcube.half_edge
    /\ Abs(diff.y) < bcube.half_edge
    /\ Abs(diff.z) < bcube.half_edge

\* enum Boundedness: kind is "None", "Minimal" or "Octant"; octant is the
\* octant of Octant(..) and NoOctant for the other two
Boundedness(kind, o) == [kind |-> kind, octant |-> o]

\* vec3!(other.half_edge, other.half_edge, other.half_edge)
half_diag(other) == vec3(other.half_edge, other.half_edge, other.half_edge)

\* BoundingCube::boundedness without the comparison of the two corners
boundedness_FarOnly(self, other) ==
    LET near == octant(self, VSub(other.center, half_diag(other)))
        far  == octant(self, VAdd(other.center, half_diag(other)))
    IN IF near # NoOctant
       THEN IF far # NoOctant THEN Boundedness("Octant", far)
            ELSE Boundedness("None", NoOctant)
       ELSE Boundedness("None", NoOctant)

\* BoundingCube::boundedness
boundedness(self, other) ==
    LET near == octant(self, VSub(other.center, half_diag(other)))
        far  == octant(self, VAdd(other.center, half_diag(other)))
    IN IF near # NoOctant
       THEN IF far # NoOctant /\ near = far THEN Boundedness("Octant", far)
            ELSE IF far # NoOctant THEN Boundedness("Minimal", NoOctant)
            ELSE Boundedness("None", NoOctant)
       ELSE Boundedness("None", NoOctant)

\* BoundingCube::contains_bcube
contains_bcube(self, other) ==
    /\ contains(self, VAdd(other.center, half_diag(other)))
    /\ contains(self, VSub(other.center, half_diag(other)))

NoChildren == [o \in Octants |-> None]

Node(b, o, p, ch, ct) ==
    [bcube |-> b, octant |-> o, parent |-> p, children |-> ch, contents |-> ct]

Entry(b, v, n) == [bcube |-> b, val |-> v, node |-> n]

----------------------------------------------------------------------------
(* Inputs *)

\* (initial cube half-edge, min_dist) given to LooseOctree::new; the initial
\* cube is centred at the origin
Configs == { [half |-> 8, min |-> 64], [half |-> 16, min |-> 2] }

\* the cubes given to insert and adjust: a small cube, a medium one, one as
\* large as the first initial cube and a larger one around (2,2,2); a small
\* cube whose centre has x > 0 > z; a medium
\* cube that lies below the initial cube of the first configuration on the
\* y axis; a medium cube beyond the initial cube on the x axis
Cubes == { BoundingCube(vec3(2, 2, 2), 1),
           BoundingCube(vec3(2, 2, 2), 4),
           BoundingCube(vec3(2, 2, 2), 8),
           BoundingCube(vec3(2, 2, 2), 16),
           BoundingCube(vec3(2, -10, 2), 4),
           BoundingCube(vec3(18, 2, -2), 4) }

\* the cubes given to insert: to the first insert the small, the medium, the
\* largest cube around (2,2,2) and one twice the largest, to the later ones
\* the medium cube
InsertCubes(n) ==
    { BoundingCube(vec3(2, 2, 2), h) : h \in (IF n = 0 THEN {1, 4, 16, 32} ELSE {4}) }

Vals == { "a", "b" }

\* the payloads given to insert: "a" and "b" in turn, so that neighbours in
\* the entry table hold different payloads
InsertVals(n) == IF n % 2 = 0 THEN { "a" } ELSE { "b" }

----------------------------------------------------------------------------
(* Node arena *)

InRange(ns, id) == id # None /\ as_index(id) >= 0 /\ as_index(id) < Len(ns)

\* LooseOctree::node_by_id (the caller has checked InRange)
node_by_id(ns, id) == ns[as_index(id) + 1]

\* LooseOctree::new_node: the arena after the push, and the id returned
new_node(ns, n) == [nodes |-> Append(ns, n), id |-> NodeIDOf(Len(ns))]

\* get_child allocating a child whether or not the slot is populated
get_child_Always(ns, id, o) ==
    LET old_bcube  == node_by_id(ns, id).bcube
        new_center == VAdd(old_bcube.center,
                           scaled(as_vector(o), old_bcube.half_edge \div 2))
        r == new_node(ns, Node(BoundingCube(new_center, old_bcube.half_edge \div 2),
                               o, id, NoChildren, <<>>))
    IN [nodes |-> [r.nodes EXCEPT ![as_index(id) + 1].children[o] = r.id],
        id |-> r.id]

\* LooseOctree::get_child
get_child(ns, id, o) ==
    LET old == node_by_id(ns, id) IN
    IF old.children[o] # None
    THEN [nodes |-> ns, id |-> old.children[o]]
    ELSE LET old_bcube  == old.bcube
             new_center == VAdd(old_bcube.center,
                                scaled(as_vector(o), old_bcube.half_edge \div 2))
             r == new_node(ns, Node(BoundingCube(new_center, old_bcube.half_edge \div 2),
                                    o, id, NoChildren, <<>>))
         IN [nodes |-> [r.nodes EXCEPT ![as_index(id) + 1].children[o] = r.id],
             id |-> r.id]

\* make_parent_toward with the half-edge of the new parent not doubled
make_parent_toward_SameSize(ns, id, v) ==
    LET old_bcube == node_by_id(ns, id).bcube
        diff == VSub(v, old_bcube.center)
        o == (IF diff.x < 0 THEN S0 ELSE SX)
           + (IF diff.y < 0 THEN S0 ELSE SY)
           + (IF diff.z < 0 THEN S0 ELSE SZ)
        new_center == VAdd(old_bcube.center, scaled(as_vector(o), -old_bcube.half_edge))
        r == new_node(ns, Node(BoundingCube(new_center, old_bcube.half_edge),
                               S0, None, NoChildren, <<>>))
    IN [nodes |-> [r.nodes EXCEPT ![as_index(r.id) + 1].children[o] = id],
        id |-> r.id]

\* make_parent_toward with a zero difference on an axis leaving the bit clear
make_parent_toward_TiesClear(ns, id, v) ==
    LET old_bcube == node_by_id(ns, id).bcube
        diff == VSub(v, old_bcube.center)
        o == (IF diff.x <= 0 THEN S0 ELSE SX)
           + (IF diff.y <= 0 THEN S0 ELSE SY)
           + (IF diff.z <= 0 THEN S0 ELSE SZ)
        new_center == VAdd(old_bcube.center, scaled(as_vector(o), -old_bcube.half_edge))
        r == new_node(ns, Node(BoundingCube(new_center, old_bcube.half_edge * 2),
                               S0, None, NoChildren, <<>>))
    IN [nodes |-> [r.nodes EXCEPT ![as_index(r.id) + 1].children[o] = id],
        id |-> r.id]

\* LooseOctree::make_parent_toward
make_parent_toward(ns, id, v) ==
    LET old_bcube == node_by_id(ns, id).bcube
        diff == VSub(v, old_bcube.center)
        o == (IF diff.x < 0 THEN S0 ELSE SX)
           + (IF diff.y < 0 THEN S0 ELSE SY)
           + (IF diff.z < 0 THEN S0 ELSE SZ)
        new_center == VAdd(old_bcube.center, scaled(as_vector(o), -old_bcube.half_edge))
        r == new_node(ns, Node(BoundingCube(new_center, old_bcube.half_edge * 2),
                               S0, None, NoChildren, <<>>))
    IN [nodes |-> [r.nodes EXCEPT ![as_index(r.id) + 1].children[o] = id],
        id |-> r.id]

Pop(ns) == SubSeq(ns, 1, Len(ns) - 1)

\* free_node, lines 120-124: repoint the children of the moved node, slot by
\* slot from octant o on; indexing the arena out of range panics (ok = FALSE)
RECURSIVE FixChildren(_, _, _, _)
FixChildren(ns, last, id, o) ==
    IF o > 7 THEN [nodes |-> ns, ok |-> TRUE]
    ELSE IF last.children[o] = None THEN FixChildren(ns, last, id, o + 1)
    ELSE IF ~InRange(ns, last.children[o]) THEN [nodes |-> ns, ok |-> FALSE]
    ELSE FixChildren([ns EXCEPT ![as_index(last.children[o]) + 1].parent = id],
                     last, id, o + 1)

\* free_node, lines 126-128: repoint the entries held by the moved node
RECURSIVE FixEntries(_, _, _, _)
FixEntries(es, ct, id, i) ==
    IF i > Len(ct) THEN [entries |-> es, ok |-> TRUE]
    ELSE IF ct[i] >= Len(es) THEN [entries |-> es, ok |-> FALSE]
    ELSE FixEntries([es EXCEPT ![ct[i] + 1].node = id], ct, id, i + 1)

\* free_node truncating the arena without moving the last node into the
\* slot of the freed one
free_node_DropsLast(ns, es, rt, id) ==
    IF id = rt THEN [st |-> "assert", nodes |-> ns, entries |-> es]
    ELSE [st |-> "ok", nodes |-> Pop(ns), entries |-> es]

\* LooseOctree::free_node; the caller has checked InRange(ns, id).  st is
\* "assert" when debug_assert!(id != self.root) fails and "panic" when an
\* index is out of range; the state is then the one the failure leaves behind.
free_node(ns, es, rt, id) ==
    IF id = rt THEN [st |-> "assert", nodes |-> ns, entries |-> es]
    ELSE IF as_index(id) = Len(ns) - 1
    THEN [st |-> "ok", nodes |-> Pop(ns), entries |-> es]
    ELSE
      LET last == ns[Len(ns)]
          ns1  == Pop(ns)
          pOk  == last.parent = None \/ InRange(ns1, last.parent)
          ns2  == IF last.parent # None /\ pOk
                  THEN [ns1 EXCEPT ![as_index(last.parent) + 1].children[last.octant] = id]
                  ELSE ns1
          fc   == FixChildren(ns2, last, id, 0)
          fe   == FixEntries(es, last.contents, id, 1)
      IN IF ~pOk THEN [st |-> "panic", nodes |-> ns1, entries |-> es]
         ELSE IF ~fc.ok THEN [st |-> "panic", nodes |-> fc.nodes, entries |-> es]
         ELSE IF ~fe.ok THEN [st |-> "panic", nodes |-> fc.nodes, entries |-> fe.entries]
         ELSE [st |-> "ok", nodes |-> [fc.nodes EXCEPT ![as_index(id) + 1] = last],
               entries |-> fe.entries]

\* the test of maybe_free without the look at the child slots
ShouldFree_IgnoresChildren(n) ==
    /\ n.parent # None
    /\ n.contents = <<>>

\* maybe_free, lines 168-172: the node is released iff it has a parent, no
\* contents and no populated child slot
ShouldFree(n) ==
    /\ n.parent # None
    /\ n.contents = <<>>
    /\ ~(\E o \in Octants : n.children[o] # None)

\* LooseOctree::maybe_free
RECURSIVE maybe_free(_, _, _, _)
maybe_free(ns, es, rt, id) ==
    IF ~InRange(ns, id) THEN [st |-> "panic", nodes |-> ns, entries |-> es]
    ELSE IF ShouldFree(node_by_id(ns, id))
    THEN LET r == free_node(ns, es, rt, id)
         IN IF r.st # "ok" THEN r
            ELSE maybe_free(r.nodes, r.entries, rt, node_by_id(ns, id).parent)
    ELSE [st |-> "ok", nodes |-> ns, entries |-> es]

\* get_node, lines 194-195: case 1, the cube belongs in a child
TooSmall(node_bcube, bcube, md) ==
    /\ node_bcube.half_edge \div 2 > bcube.half_edge
    /\ node_bcube.half_edge < md

\* line 200 with `>` written for `<`
TooBig_Reversed(node_bcube, bcube) == node_bcube.half_edge > bcube.half_edge

\* line 200 with `<=` written for `<`
TooBig_OrEqual(node_bcube, bcube) == node_bcube.half_edge <= bcube.half_edge

\* get_node, line 200: case 2, the cube belongs in a parent
TooBig(node_bcube, bcube) == node_bcube.half_edge < bcube.half_edge

\* get_node, lines 202-205 and 213-216: the parent, made if there is none
parent_or_new(ns, id, v) ==
    IF node_by_id(ns, id).parent # None
    THEN [nodes |-> ns, id |-> node_by_id(ns, id).parent]
    ELSE make_parent_toward(ns, id, v)

\* One invocation of the body of get_node, up to its recursive call: st is
\* "recurse" (get_node is called on `id` in the arena `nodes`), "return"
\* (`id` is returned), "panic" (node_by_id indexes out of range) or
\* "capped" (the allocation exceeds the bound of the model).
get_node_body(ns, id, bcube, md) ==
    IF ~InRange(ns, id) THEN [st |-> "panic", nodes |-> ns, id |-> id]
    ELSE
      LET node_bcube == node_by_id(ns, id).bcube
          oct == octant(node_bcube, bcube.center)
          r == IF oct # NoOctant /\ TooSmall(node_bcube, bcube, md)
               THEN get_child(ns, id, oct)
               ELSE parent_or_new(ns, id, bcube.center)
      IN IF /\ oct # NoOctant
            /\ ~TooSmall(node_bcube, bcube, md)
            /\ ~TooBig(node_bcube, bcube)
         THEN [st |-> "return", nodes |-> ns, id |-> id]
         ELSE IF Len(r.nodes) > MaxNodes
         THEN [st |-> "capped", nodes |-> ns, id |-> id]
         ELSE [st |-> "recurse", nodes |-> r.nodes, id |-> r.id]

\* LooseOctree::get_node, the whole recursion.  `seen` holds the ids the
\* recursion went through since the arena last changed: calling get_node
\* again on one of them repeats the same calls for ever, the recursion
\* never returns (st = "overflow").
RECURSIVE get_node(_, _, _, _, _)
get_node(ns, id, bcube, md, seen) ==
    LET r == get_node_body(ns, id, bcube, md) IN
    IF r.st # "recurse" THEN r
    ELSE IF r.nodes # ns THEN get_node(r.nodes, r.id, bcube, md, {})
    ELSE IF r.id \in seen \cup {id} THEN [st |-> "overflow", nodes |-> ns, id |-> id]
    ELSE get_node(ns, r.id, bcube, md, seen \cup {id})

\* lines 144-146 with the entry put at the front of the table
insert_tail_AtFront(ns, es, val, bcube, node) ==
    [st |-> "ok", nodes |-> ns, entries |-> <<Entry(bcube, val, node)>> \o es]

\* insert, lines 144-146, after get_node returned `node`
insert_tail(ns, es, val, bcube, node) ==
    [st |-> "ok", nodes |-> ns, entries |-> Append(es, Entry(bcube, val, node))]

\* adjust, lines 156-162, after get_node returned new_node
adjust_tail(ns, es, rt, ent_id, current_node, new_node_id) ==
    IF new_node_id = current_node
    THEN [st |-> "ok", nodes |-> ns, entries |-> es]
    ELSE
      LET ns1 == [ns EXCEPT ![as_index(current_node) + 1].contents =
                     SelectSeq(@, LAMBDA x : x # ent_id)]
          m == maybe_free(ns1, es, rt, current_node)
      IN IF m.st # "ok" THEN m
         ELSE IF ~InRange(m.nodes, new_node_id)
         THEN [st |-> "panic", nodes |-> m.nodes, entries |-> m.entries]
         ELSE [st |-> "ok",
               nodes |-> [m.nodes EXCEPT ![as_index(new_node_id) + 1].contents =
                             Append(@, ent_id)],
               entries |-> [m.entries EXCEPT ![ent_id + 1].node = new_node_id]]

----------------------------------------------------------------------------
(* State *)

NoCube == BoundingCube(vec3(0, 0, 0), 0)

\* call: the last call of insert or adjust, with its arguments and the locals
\* current_node and new_node (new_bcube: the cube of the node get_node
\* returned, as it was on return); pre: the tree and the entry table as they
\* were when the call began
NoCall == [op |-> "none", ent_id |-> 0, val |-> "a", bcube |-> NoCube,
           current_node |-> None, new_node |-> None, new_bcube |-> NoCube]

\* insert, lines 135-136: the arguments and ent_id, the id insert returns
InsertCall(val, bcube) ==
    [op |-> "insert", ent_id |-> Len(entries), val |-> val, bcube |-> bcube,
     current_node |-> None, new_node |-> None, new_bcube |-> NoCube]

AdjustCall(ent_id, bcube) ==
    [op |-> "adjust", ent_id |-> ent_id, val |-> entries[ent_id + 1].val,
     bcube |-> bcube, current_node |-> entries[ent_id + 1].node,
     new_node |-> None, new_bcube |-> NoCube]

\* insert line 140 / adjust line 151: the node get_node starts from
StartNode(c) == IF c.op = "insert" THEN root ELSE c.current_node

\* the call c with the node get_node returned filled in
Returned(c, g) ==
    [c EXCEPT !.new_node = g.id, !.new_bcube = node_by_id(g.nodes, g.id).bcube]

\* insert / adjust after get_node returned: lines 144-146 / 156-162
Rest(c, ns) ==
    IF c.op = "insert"
    THEN insert_tail(ns, entries, c.val, c.bcube, c.new_node)
    ELSE adjust_tail(ns, entries, root, c.ent_id, c.current_node, c.new_node)

\* the whole call c: LooseOctree::insert / LooseOctree::adjust
Run(c) ==
    LET g == get_node(nodes, StartNode(c), c.bcube, min_dist, {})
        d == Returned(c, g)
        t == Rest(d, g.nodes)
    IN IF g.st # "return"
       THEN [st |-> g.st, nodes |-> g.nodes, entries |-> entries, call |-> c]
       ELSE [st |-> t.st, nodes |-> t.nodes, entries |-> t.entries, call |-> d]

Snapshot == [nodes |-> nodes, entries |-> entries]

NoSnapshot == [nodes |-> <<>>, entries |-> <<>>]

\* LooseOctree::new
LooseOctreeNew ==
    \E cfg \in Configs :
      LET r == new_node(<<>>, Node(BoundingCube(vec3(0, 0, 0), cfg.half),
                                   S0, None, NoChildren, <<>>))
      IN /\ root = r.id
         /\ nodes = r.nodes
         /\ entries = <<>>
         /\ min_dist = cfg.min
         /\ pc = "idle"
         /\ call = NoCall
         /\ cur = None
         /\ pre = NoSnapshot

----------------------------------------------------------------------------
(* The entity manager generated by make_ecs! (entity/macros.rs)            *)

\* largest number of entities created
MaxEntities == 3

\* largest number of systems added
MaxSystems == 2

\* the components of make_ecs! in entity/mod.rs, in the order of the macro
ComponentNames == <<"world_location", "world_render">>

Components == {ComponentNames[i] : i \in 1 .. Len(ComponentNames)}

\* EntityID; ids are given out from 1 on
EntityIDs == 1 .. MaxEntities

\* None of an Option holding an EntityID
NoID == 0

\* the first key of an iterator over the keys in `keys` (a BTreeMap iterates
\* in ascending order of its keys), None when there is none
IterFirst(keys) ==
    IF keys = {} THEN NoID ELSE CHOOSE k \in keys : \A j \in keys : k <= j

\* the keys left in the iterator after that
IterAfterFirst(keys) == keys \ {IterFirst(keys)}

\* Manager::update, lines 109-117 and 139-147, for one component: the match
\* on (next_entity, component.next)
Earlier(ne, nx) ==
    IF nx = NoID THEN ne
    ELSE IF ne = NoID THEN nx
    ELSE IF nx < ne THEN nx ELSE ne

\* lines 108-118 and 138-148: the match repeated for every component, in
\* the order of the macro, from component i on
RECURSIVE NextEntity(_, _, _)
NextEntity(ne, nx, i) ==
    IF i > Len(ComponentNames) THEN ne
    ELSE NextEntity(Earlier(ne, nx[ComponentNames[i]]), nx, i + 1)

\* no process_entity has been invoked
NotInvoked == [s \in 1 .. MaxSystems |-> [id \in EntityIDs |-> 0]]

\* Manager::new
ManagerNew ==
    /\ next_id = 1
    /\ systems = 0
    /\ components = [c \in Components |-> {}]
    /\ ecs_pc = "idle"
    /\ iter_next = [c \in Components |-> NoID]
    /\ iter_rest = [c \in Components |-> {}]
    /\ next_entity = NoID
    /\ invoked = NotInvoked
    /\ visit_order = <<>>
    /\ views_ok = TRUE

\* Manager::add_system
AddSystem ==
    /\ ecs_pc # "while"
    /\ systems < MaxSystems
    /\ systems' = systems + 1
    /\ ecs_pc' = "idle"
    /\ UNCHANGED <<next_id, components, iter_next, iter_rest, next_entity,
                   invoked, visit_order, views_ok, beside_ecs>>

\* Manager::entity_from_view; view: the components the View refers to
EntityFromView(view) ==
    /\ ecs_pc # "while"
    /\ next_id <= MaxEntities
    /\ next_id' = next_id + 1
    /\ components' = [c \in Components |->
                         IF c \in view THEN components[c] \cup {next_id}
                         ELSE components[c]]
    /\ ecs_pc' = "idle"
    /\ UNCHANGED <<systems, iter_next, iter_rest, next_entity, invoked,
                   visit_order, views_ok, beside_ecs>>

\* Manager::remove_entity
RemoveEntity(id) ==
    /\ ecs_pc # "while"
    /\ \E c \in Components : id \in components[c]
    /\ components' = [c \in Components |-> components[c] \ {id}]
    /\ ecs_pc' = "idle"
    /\ UNCHANGED <<next_id, systems, iter_next, iter_rest, next_entity,
                   invoked, visit_order, views_ok, beside_ecs>>

\* Manager::update, lines 93-118: every system's update, the iterators and
\* the first value of next_entity
UpdateBegin ==
    /\ ecs_pc # "while"
    /\ iter_next' = [c \in Components |-> IterFirst(components[c])]
    /\ iter_rest' = [c \in Components |-> IterAfterFirst(components[c])]
    /\ next_entity' = NextEntity(NoID, iter_next', 1)
    /\ invoked' = NotInvoked
    /\ visit_order' = <<>>
    /\ views_ok' = TRUE
    /\ ecs_pc' = "while"
    /\ UNCHANGED <<next_id, systems, components, beside_ecs>>

\* Manager::update, lines 120-148: one round of the while loop.  invoked
\* counts the calls of process_entity per system and entity (2: more than
\* one), visit_order lists the entities in the order of their first round,
\* views_ok says that every View passed to a system so far had Some in
\* exactly the components stored for its entity.
UpdateVisit ==
    /\ ecs_pc = "while"
    /\ next_entity # NoID
    /\ LET cur_id == next_entity
           view == {c \in Components : iter_next[c] = cur_id}
       IN /\ iter_next' = [c \in Components |->
                              IF c \in view THEN IterFirst(iter_rest[c])
                              ELSE iter_next[c]]
          /\ iter_rest' = [c \in Components |->
                              IF c \in view THEN IterAfterFirst(iter_rest[c])
                              ELSE iter_rest[c]]
          /\ invoked' = [s \in 1 .. MaxSystems |->
                            IF s <= systems
                            THEN [invoked[s] EXCEPT ![cur_id] = IF @ < 2 THEN @ + 1 ELSE 2]
                            ELSE invoked[s]]
          /\ visit_order' = IF \E i \in 1 .. Len(visit_order) : visit_order[i] = cur_id
                            THEN visit_order
                            ELSE Append(visit_order, cur_id)
          /\ views_ok' = (views_ok /\
                            (systems > 0 =>
                                view = {c \in Components : cur_id \in components[c]}))
          /\ next_entity' = NextEntity(next_entity, iter_next', 1)
    /\ UNCHANGED <<next_id, systems, components, ecs_pc, beside_ecs>>

\* Manager::update, lines 120 and 150: next_entity is None, update returns
UpdateReturn ==
    /\ ecs_pc = "while"
    /\ next_entity = NoID
    /\ ecs_pc' = "returned"
    /\ UNCHANGED <<next_id, systems, components, iter_next, iter_rest,
                   next_entity, invoked, visit_order, views_ok, beside_ecs>>

EcsNext ==
    \/ AddSystem
    \/ \E view \in SUBSET Components : EntityFromView(view)
    \/ \E id \in EntityIDs : RemoveEntity(id)
    \/ UpdateBegin
    \/ UpdateVisit
    \/ UpdateReturn

----------------------------------------------------------------------------
(* A generic entity and its event bus (scene/entity.rs)                    *)

\* largest number of components of the entity
MaxComponents == 2

\* largest number of events fired in one update
MaxEvents == 3

\* no event
NoEvent == 0

\* EventBus::fire
EventBusFire(queue, event) == Append(queue, event)

\* EventBus::next with pop_back written for pop_front
EventBusNext_Back(queue) ==
    IF queue = <<>> THEN [event |-> NoEvent, queue |-> queue]
    ELSE [event |-> queue[Len(queue)], queue |-> SubSeq(queue, 1, Len(queue) - 1)]

\* EventBus::next: the event returned (None: NoEvent) and the queue left
EventBusNext(queue) ==
    IF queue = <<>> THEN [event |-> NoEvent, queue |-> queue]
    ELSE [event |-> Head(queue), queue |-> Tail(queue)]

\* a call of a Component's method: op is the method, c the position of the
\* component in `components`, event the event passed (NoEvent for stage),
\* fired the event the method fired on the bus (NoEvent: none)
MethodCall(op, c, event, fired) ==
    [op |-> op, c |-> c, event |-> event, fired |-> fired]

\* the position after component ge_i in one of the for loops of update:
\* the next component, or the code after the loop
AfterComponent(loop, after) ==
    /\ ge_i' = IF ge_i < ge_components THEN ge_i + 1 ELSE 1
    /\ ge_pc' = IF ge_i < ge_components THEN loop ELSE after

\* the method of a component runs: it fires an event on the bus or none
\* (events are numbered in the order in which they are fired)
Method(op, fires) ==
    /\ fires => ge_fired < MaxEvents
    /\ bus' = IF fires THEN EventBusFire(bus, ge_fired + 1) ELSE bus
    /\ ge_fired' = IF fires THEN ge_fired + 1 ELSE ge_fired
    /\ ge_log' = Append(ge_log, MethodCall(op, ge_i, ge_event,
                                           IF fires THEN ge_fired + 1 ELSE NoEvent))

\* no entity has been built
NoGenericEntity ==
    /\ bus = <<>>
    /\ ge_components = 0
    /\ ge_pc = "none"
    /\ ge_i = 1
    /\ ge_event = NoEvent
    /\ ge_fired = 0
    /\ ge_log = <<>>

\* a GenericEntity is built with n components and `queued` events on its bus
GenericEntityNew(n, queued) ==
    /\ ge_pc = "none"
    /\ ge_components' = n
    /\ bus' = [k \in 1 .. queued |-> k]
    /\ ge_fired' = queued
    /\ ge_pc' = "idle"
    /\ UNCHANGED <<ge_i, ge_event, ge_log, beside_ge>>

\* GenericEntity::update is called
GeUpdateBegin ==
    /\ ge_pc \in {"idle", "returned"}
    /\ ge_pc' = IF ge_components > 0 THEN "stage" ELSE "next"
    /\ ge_i' = 1
    /\ ge_event' = NoEvent
    /\ ge_fired' = Len(bus)
    /\ ge_log' = <<>>
    /\ UNCHANGED <<bus, ge_components, beside_ge>>

\* lines 70-72: stage of one component
GeStage(fires) ==
    /\ ge_pc = "stage"
    /\ Method("stage", fires)
    /\ AfterComponent("stage", "next")
    /\ UNCHANGED <<ge_components, ge_event, beside_ge>>

\* line 74: the bus gives an event
GeNextEvent ==
    /\ ge_pc = "next"
    /\ bus # <<>>
    /\ ge_event' = EventBusNext(bus).event
    /\ bus' = EventBusNext(bus).queue
    /\ ge_log' = Append(ge_log, MethodCall("next", 0, ge_event', NoEvent))
    /\ ge_pc' = IF ge_components > 0 THEN "react" ELSE "next"
    /\ ge_i' = 1
    /\ UNCHANGED <<ge_components, ge_fired, beside_ge>>

\* lines 76-78: react of one component
GeReact(fires) ==
    /\ ge_pc = "react"
    /\ Method("react", fires)
    /\ AfterComponent("react", "commit")
    /\ UNCHANGED <<ge_components, ge_event, beside_ge>>

\* lines 80-82: commit of one component
GeCommit(fires) ==
    /\ ge_pc = "commit"
    /\ Method("commit", fires)
    /\ AfterComponent("commit", "next")
    /\ UNCHANGED <<ge_components, ge_event, beside_ge>>

\* lines 74 and 84: the bus gives None, update returns
GeUpdateReturn ==
    /\ ge_pc = "next"
    /\ EventBusNext(bus).event = NoEvent
    /\ ge_pc' = "returned"
    /\ ge_log' = Append(ge_log, MethodCall("return", 0, NoEvent, NoEvent))
    /\ UNCHANGED <<bus, ge_components, ge_i, ge_event, ge_fired, beside_ge>>

GeNext ==
    \/ \E n \in 0 .. MaxComponents, queued \in 0 .. 1 : GenericEntityNew(n, queued)
    \/ GeUpdateBegin
    \/ \E fires \in BOOLEAN : GeStage(fires)
    \/ GeNextEvent
    \/ \E fires \in BOOLEAN : GeReact(fires)
    \/ \E fires \in BOOLEAN : GeCommit(fires)
    \/ GeUpdateReturn

----------------------------------------------------------------------------
(* The resource databases: SharedDb (system/db.rs) and the sprite          *)
(* Database (grafix/sprite.rs, whose element vector is called id2sheet).   *)
(* The Ref of get_resource is dropped before the next operation, so no     *)
(* RefCell is borrowed when an operation begins.                           *)

\* largest number of elements stored in a database
MaxElems == 2

\* the two databases
Dbs == {"SharedDb", "Database"}

\* names and resources given to insert
Names == {"a", "b"}

Elems == {"x", "y"}

\* None of an Option holding an id; None of an Option holding a resource
NoElemID == -1

NoElem == "none"

\* HashMap::new: no name has an id
EmptyMap == [name \in Names |-> NoElemID]

\* HashMap::contains_key
contains_key(map, name) == map[name] # NoElemID

\* whether the arguments of the assertion in insert are evaluated:
\* debug_assert_eq! (db.rs:65) expands to nothing of that kind in a build
\* without debug assertions, assert_eq! (sprite.rs:255) is always evaluated
AssertionEvaluated(db) == IF db = "SharedDb" THEN debug_assertions ELSE TRUE

\* db.rs:54-67 and sprite.rs:247-257 on the maps m (name2id), v (id2elem)
\* and the names under which the elements of v were given (n)
db_insert(db, m, v, n, name, elem) ==
    IF contains_key(m, name) THEN [name2id |-> m, id2elem |-> v, id2name |-> n]
    ELSE LET id == Len(v) IN
         [name2id |-> IF AssertionEvaluated(db) THEN [m EXCEPT ![name] = id] ELSE m,
          id2elem |-> Append(v, elem),
          id2name |-> Append(n, name)]

\* Handle::get_id, Database::get_id
get_id(m, name) == m[name]

\* Handle::get_resource (the resource the Ref derefs to), Database::get_sheet
get_resource(v, id) == IF id \in 0 .. Len(v) - 1 THEN v[id + 1] ELSE NoElem

\* the record of an operation: its arguments, the state of the database
\* when it began and what it returned
DbCall(op, db, name, elem, id, result) ==
    [op |-> op, db |-> db, name |-> name, elem |-> elem, id |-> id,
     result |-> result,
     name2id |-> name2id[db], id2elem |-> id2elem[db], id2name |-> id2name[db]]

\* the program has built no database yet
NoDatabases ==
    /\ debug_assertions = FALSE
    /\ name2id = [db \in Dbs |-> EmptyMap]
    /\ id2elem = [db \in Dbs |-> <<>>]
    /\ id2name = [db \in Dbs |-> <<>>]
    /\ db_pc = "none"
    /\ db_call = [op |-> "none"]

\* SharedDb::new and Database::new, in a build with or without debug
\* assertions
DbNew(build) ==
    /\ db_pc = "none"
    /\ debug_assertions' = build
    /\ db_pc' = "idle"
    /\ db_call' = [op |-> "new"]
    /\ UNCHANGED <<name2id, id2elem, id2name, beside_db>>

\* SharedDb::insert, Database::insert
DbInsert(db, name, elem) ==
    /\ db_pc = "idle"
    /\ contains_key(name2id[db], name) \/ Len(id2elem[db]) < MaxElems
    /\ \E r \in {db_insert(db, name2id[db], id2elem[db], id2name[db], name, elem)} :
          /\ name2id' = [name2id EXCEPT ![db] = r.name2id]
          /\ id2elem' = [id2elem EXCEPT ![db] = r.id2elem]
          /\ id2name' = [id2name EXCEPT ![db] = r.id2name]
    /\ db_call' = DbCall("insert", db, name, elem, NoElemID, NoElem)
    /\ UNCHANGED <<debug_assertions, db_pc, beside_db>>

\* Handle::get_id, Database::get_id
DbGetId(db, name) ==
    /\ db_pc = "idle"
    /\ db_call' = DbCall("get_id", db, name, NoElem, get_id(name2id[db], name), NoElem)
    /\ UNCHANGED <<debug_assertions, name2id, id2elem, id2name, db_pc, beside_db>>

\* Handle::get_resource, Database::get_sheet
DbGetResource(db, id) ==
    /\ db_pc = "idle"
    /\ db_call' = DbCall("get_resource", db, "a", NoElem, id, get_resource(id2elem[db], id))
    /\ UNCHANGED <<debug_assertions, name2id, id2elem, id2name, db_pc, beside_db>>

DbNext ==
    \/ \E build \in BOOLEAN : DbNew(build)
    \/ \E db \in Dbs, name \in Names, elem \in Elems : DbInsert(db, name, elem)
    \/ \E db \in Dbs, name \in Names : DbGetId(db, name)
    \/ \E db \in Dbs, id \in 0 .. MaxElems : DbGetResource(db, id)

----------------------------------------------------------------------------
(* The asset database of the client (asset/client.rs)                      *)
(*                                                                         *)
(* An asset is PlaceHolder, SpriteSheetAbsent(desc), SpriteSheet(sheet) or *)
(* Animation(anim).  A descriptor is modelled by the number of its sheet   *)
(* in the manifest, and the sheet Sheet::from_desc builds from a           *)
(* descriptor by that same number.  Whether the two image files of a       *)
(* descriptor can be read is decided by the file system at each call.      *)
(* `handles` counts the Handles given out and not yet dropped: each holds  *)
(* a Ref of the RefCell, and borrow_mut panics while one exists.           *)

\* largest number of assets in a manifest
MaxAssets == 3

\* largest number of Handles alive at a time
MaxHandles == 1

\* the variants of enum Asset
PlaceHolder == [kind |-> "PlaceHolder", of |-> 0]

SpriteSheetAbsent(desc) == [kind |-> "SpriteSheetAbsent", of |-> desc]

SpriteSheet(sheet) == [kind |-> "SpriteSheet", of |-> sheet]

Animation(anim) == [kind |-> "Animation", of |-> anim]

\* the names of the manifests: the i-th sprite sheet and the i-th animation
AssetNames == {"sheet", "anim"} \X (1 .. MaxAssets)

\* the AssetIDs given to the operations: those of the assets and one beyond
AssetIDs == 0 .. MaxAssets

\* Option<AssetID> / Option<&Sheet> / Option<&Anim>: None
NoAsset == -1

\* the manifests: a number of sprite sheets followed by a number of animations
Manifests ==
    { w \in [sprite_sheets : 0 .. MaxAssets, anims : 0 .. MaxAssets] :
        w.sprite_sheets + w.anims <= MaxAssets }

\* AssetDbInner::empty
AssetDbInnerEmpty == [by_name |-> [n \in AssetNames |-> NoAsset], by_id |-> <<>>]

\* from_manifest, lines 49-59: the loop over the sprite sheets, from sheet i on
RECURSIVE load_sheet_descs(_, _, _)
load_sheet_descs(db, w, i) ==
    IF i > w.sprite_sheets THEN db
    ELSE load_sheet_descs(
             [by_name |-> [db.by_name EXCEPT ![<<"sheet", i>>] = Len(db.by_id)],
              by_id   |-> Append(db.by_id, SpriteSheetAbsent(i))],
             w, i + 1)

\* from_manifest, lines 61-71: the loop over the animations, from animation i on
RECURSIVE load_anims(_, _, _)
load_anims(db, w, i) ==
    IF i > w.anims THEN db
    ELSE load_anims(
             [by_name |-> [db.by_name EXCEPT ![<<"anim", i>>] = Len(db.by_id)],
              by_id   |-> Append(db.by_id, Animation(i))],
             w, i + 1)

\* AssetDb::from_manifest
from_manifest(w) == load_anims(load_sheet_descs(AssetDbInnerEmpty, w, 1), w, 1)

\* AssetDb::load, lines 84-91, once the RefCell is borrowed; ok tells
\* whether Sheet::from_desc returns Ok
load(ids, id, ok) ==
    IF id < Len(ids) /\ ids[id + 1].kind = "SpriteSheetAbsent"
    THEN IF ok THEN [ids EXCEPT ![id + 1] = SpriteSheet(ids[id + 1].of)]
         ELSE [ids EXCEPT ![id + 1] = PlaceHolder]
    ELSE ids

\* Handle::get_id
asset_get_id(names, name) == names[name]

\* Handle::get_anim
get_anim(ids, id) ==
    IF id < Len(ids) /\ ids[id + 1].kind = "Animation" THEN ids[id + 1].of ELSE NoAsset

\* Handle::get_sprite_sheet
get_sprite_sheet(ids, id) ==
    IF id < Len(ids) /\ ids[id + 1].kind = "SpriteSheet" THEN ids[id + 1].of ELSE NoAsset

NoAssetCall == [op |-> "none"]

\* no asset database has been built yet
NoAssetDb ==
    /\ by_name = AssetDbInnerEmpty.by_name
    /\ by_id = <<>>
    /\ handles = 0
    /\ asset_pc = "none"
    /\ asset_call = NoAssetCall

\* AssetDb::from_manifest
FromManifest ==
    /\ asset_pc = "none"
    /\ \E w \in Manifests :
          /\ by_name' = from_manifest(w).by_name
          /\ by_id' = from_manifest(w).by_id
          /\ asset_call' = [op |-> "from_manifest", w |-> w]
    /\ asset_pc' = "idle"
    /\ UNCHANGED <<handles, beside_asset>>

\* AssetDb::load; borrow_mut at line 82 panics while a Handle is alive
Load ==
    /\ asset_pc = "idle"
    /\ \E id \in AssetIDs, ok \in BOOLEAN :
          /\ asset_call' = [op |-> "load", id |-> id, ok |-> ok, by_id |-> by_id,
                            borrowed |-> handles > 0]
          /\ by_id' = IF handles > 0 THEN by_id ELSE load(by_id, id, ok)
    /\ asset_pc' = IF handles > 0 THEN "panic" ELSE "idle"
    /\ UNCHANGED <<by_name, handles, beside_asset>>

\* AssetDb::get_handle
GetHandle ==
    /\ asset_pc = "idle"
    /\ handles < MaxHandles
    /\ handles' = handles + 1
    /\ asset_call' = [op |-> "get_handle"]
    /\ UNCHANGED <<by_name, by_id, asset_pc, beside_asset>>

\* a Handle goes out of scope
DropHandle ==
    /\ asset_pc = "idle"
    /\ handles > 0
    /\ handles' = handles - 1
    /\ asset_call' = [op |-> "drop_handle"]
    /\ UNCHANGED <<by_name, by_id, asset_pc, beside_asset>>

\* Handle::get_id
AssetGetId ==
    /\ asset_pc = "idle"
    /\ handles > 0
    /\ \E name \in AssetNames :
          asset_call' = [op |-> "get_id", name |-> name,
                         result |-> asset_get_id(by_name, name)]
    /\ UNCHANGED <<by_name, by_id, handles, asset_pc, beside_asset>>

\* Handle::get_anim
GetAnim ==
    /\ asset_pc = "idle"
    /\ handles > 0
    /\ \E id \in AssetIDs :
          asset_call' = [op |-> "get_anim", id |-> id, result |-> get_anim(by_id, id)]
    /\ UNCHANGED <<by_name, by_id, handles, asset_pc, beside_asset>>

\* Handle::get_sprite_sheet
GetSpriteSheet ==
    /\ asset_pc = "idle"
    /\ handles > 0
    /\ \E id \in AssetIDs :
          asset_call' = [op |-> "get_sprite_sheet", id |-> id,
                         result |-> get_sprite_sheet(by_id, id)]
    /\ UNCHANGED <<by_name, by_id, handles, asset_pc, beside_asset>>

AssetNext ==
    \/ FromManifest
    \/ Load
    \/ GetHandle
    \/ DropHandle
    \/ AssetGetId
    \/ GetAnim
    \/ GetSpriteSheet

\* no helper function has been applied
NoFnCall == [op |-> "none"]

\* the objects as constructed; entities and databases are built later
Init ==
    /\ LooseOctreeNew
    /\ ManagerNew
    /\ NoGenericEntity
    /\ NoDatabases
    /\ fn_call = NoFnCall
    /\ NoAssetDb

\* a running update goes on: the rounds of its loop are taken
EcsSpec == Init /\ [][EcsNext]_vars /\ WF_vars(UpdateVisit \/ UpdateReturn)

GeSpec == Init /\ [][GeNext]_vars

DbSpec == Init /\ [][DbNext]_vars

AssetSpec == Init /\ [][AssetNext]_vars

----------------------------------------------------------------------------
(* Operations, a whole call per step *)

\* the call c runs to its end: it returns (pc = "done") or it does not,
\* after an index out of range ("panic"), the failed assertion of free_node
\* ("assert"), a recursion without end ("overflow") or the bound of the
\* model ("capped")
Runs(c) ==
    \E r \in {Run(c)} :
      /\ nodes' = r.nodes
      /\ entries' = r.entries
      /\ call' = r.call
      /\ pre' = Snapshot
      /\ pc' = IF r.st = "ok" THEN "done" ELSE r.st
      /\ UNCHANGED <<root, min_dist, cur, beside_octree>>

\* LooseOctree::insert
Insert(val, bcube) ==
    /\ pc = "idle"
    /\ Len(entries) < MaxEntries
    /\ bcube \in InsertCubes(Len(entries))
    /\ val \in InsertVals(Len(entries))
    /\ Runs(InsertCall(val, bcube))

\* LooseOctree::adjust
Adjust(ent_id, bcube) ==
    /\ pc = "idle"
    /\ ent_id \in 0 .. Len(entries) - 1
    /\ Runs(AdjustCall(ent_id, bcube))

\* insert or adjust returns to its caller; the record of the call is dropped
Return ==
    /\ pc = "done"
    /\ pc' = "idle"
    /\ call' = NoCall
    /\ pre' = NoSnapshot
    /\ UNCHANGED <<root, nodes, entries, min_dist, cur, beside_octree>>

Next ==
    \/ \E val \in Vals, bcube \in InsertCubes(0) : Insert(val, bcube)
    \/ \E ent_id \in 0 .. MaxEntries - 1, bcube \in Cubes : Adjust(ent_id, bcube)
    \/ Return

Spec == Init /\ [][Next]_vars

----------------------------------------------------------------------------
(* Operations, one invocation of get_node per step *)

\* the call c has run up to its call of get_node
Calls(c) ==
    /\ call' = c
    /\ cur' = StartNode(c)
    /\ pre' = Snapshot
    /\ pc' = "get_node"
    /\ UNCHANGED <<root, nodes, entries, min_dist, beside_octree>>

\* insert, lines 136-142: up to the call of get_node
StepInsert(val, bcube) ==
    /\ pc = "idle"
    /\ Len(entries) < MaxEntries
    /\ bcube \in InsertCubes(Len(entries))
    /\ val \in InsertVals(Len(entries))
    /\ Calls(InsertCall(val, bcube))

\* adjust, lines 151-154: up to the call of get_node
StepAdjust(ent_id, bcube) ==
    /\ pc = "idle"
    /\ ent_id \in 0 .. Len(entries) - 1
    /\ Calls(AdjustCall(ent_id, bcube))

\* get_node calls itself on a child or on a parent
StepGetNodeRecurse ==
    /\ pc = "get_node"
    /\ LET r == get_node_body(nodes, cur, call.bcube, min_dist)
       IN /\ r.st = "recurse"
          /\ nodes' = r.nodes
          /\ cur' = r.id
    /\ UNCHANGED <<root, entries, min_dist, pc, call, pre, beside_octree>>

\* get_node returns its argument; insert or adjust runs to its end
StepGetNodeReturn ==
    /\ pc = "get_node"
    /\ LET r == get_node_body(nodes, cur, call.bcube, min_dist)
           d == Returned(call, r)
           t == Rest(d, nodes)
       IN /\ r.st = "return"
          /\ nodes' = t.nodes
          /\ entries' = t.entries
          /\ call' = d
          /\ pc' = IF t.st = "ok" THEN "done" ELSE t.st
    /\ cur' = None
    /\ UNCHANGED <<root, min_dist, pre, beside_octree>>

\* get_node indexes out of range, or allocates beyond the bound of the model
StepGetNodeStop ==
    /\ pc = "get_node"
    /\ LET r == get_node_body(nodes, cur, call.bcube, min_dist)
       IN /\ r.st \in {"panic", "capped"}
          /\ pc' = r.st
    /\ cur' = None
    /\ UNCHANGED <<root, nodes, entries, min_dist, call, pre, beside_octree>>

StepNext ==
    \/ \E val \in Vals, bcube \in InsertCubes(0) : StepInsert(val, bcube)
    \/ \E ent_id \in 0 .. MaxEntries - 1, bcube \in Cubes : StepAdjust(ent_id, bcube)
    \/ StepGetNodeRecurse
    \/ StepGetNodeReturn
    \/ StepGetNodeStop
    \/ Return

\* the program runs: a pending step is eventually taken
StepSpec == Init /\ [][StepNext]_vars /\ WF_vars(StepNext)

TypeOK ==
    /\ pc \in {"idle", "get_node", "done", "panic", "assert", "overflow", "capped"}
    /\ Len(nodes) <= MaxNodes
    /\ Len(entries) <= MaxEntries

----------------------------------------------------------------------------
(* The helper functions of the octree, applied one at a time: as_vector    *)
(* and octant to given values, get_child, make_parent_toward and free_node *)
(* to the tree as insert and adjust have left it.  An application records  *)
(* its arguments and what the function returned; the tree itself is only   *)
(* changed by insert and adjust.                                           *)

\* the cubes octant is applied to
ClassifiedCubes == { BoundingCube(vec3(0, 0, 0), 8), BoundingCube(vec3(4, 4, 4), 4) }

\* the points octant is applied to: on, inside and beyond the centre
\* planes and the outer faces of those cubes
Coordinates == {-9, -8, -2, 0, 2, 4, 8, 9}

Points == { vec3(x, y, z) : x \in Coordinates, y \in Coordinates, z \in Coordinates }

\* the points given to get_child (through octant) and to
\* make_parent_toward: on either side of the centre planes of the root, on
\* them, and beyond the root's cube on one axis
TreePoints == { vec3(2, 2, 2), vec3(-2, 2, 2), vec3(0, 0, 0),
                vec3(0, 2, -2), vec3(18, 2, -2), vec3(2, -10, 2) }

\* the cubes given to adjust while the helper functions are examined
FnCubes == { BoundingCube(vec3(2, 2, 2), 1), BoundingCube(vec3(2, 2, 2), 4),
             BoundingCube(vec3(2, 2, 2), 16) }

\* no application is on record
FnIdle == fn_call.op = "none"

\* the tree is as LooseOctree::new built it
Fresh == pc = "idle" /\ entries = <<>> /\ Len(nodes) = 1

\* Octant::as_vector is applied to an octant
ApplyAsVector ==
    /\ FnIdle /\ Fresh
    /\ \E o \in Octants :
          fn_call' = [op |-> "as_vector", octant |-> o, result |-> as_vector(o)]
    /\ UNCHANGED beside_fn

\* the values of `self.nodes.len() as u32` given to the NodeID encoding.
\* A u32 is written as the two's-complement reading of its 32 bits, under
\* which the bitwise complement !x is -1 - x on the whole range: the
\* indices 0, 1, 2 and 2^31 - 1 are themselves, -2^31 is the index 2^31,
\* -2 the index 2^32 - 2 and -1 the index 2^32 - 1 = u32::MAX.
IndexPatterns == {0, 1, 2, 2147483647, -2147483647 - 1, -2, -1}

\* the NodeID new_node makes of an index, line 85, and the index as_index
\* recovers from it, line 37
ApplyNodeID ==
    /\ FnIdle /\ Fresh
    /\ \E idx \in IndexPatterns :
          fn_call' = [op |-> "node_id", idx |-> idx, id |-> NodeIDOf(idx),
                      index |-> as_index(NodeIDOf(idx))]
    /\ UNCHANGED beside_fn

\* BoundingCube::octant is applied to a cube and a point
ApplyOctant ==
    /\ FnIdle /\ Fresh
    /\ \E bcube \in ClassifiedCubes, v \in Points :
          fn_call' = [op |-> "octant", bcube |-> bcube, v |-> v,
                      result |-> octant(bcube, v)]
    /\ UNCHANGED beside_fn

\* the cubes given to boundedness and contains_bcube as `other`: inside one
\* octant, across the centre planes, touching the outer faces and beyond
\* them on either side
OtherCoordinates == {-6, -4, 0, 4, 6}

OtherCubes ==
    { BoundingCube(vec3(x, y, z), h) :
        x \in OtherCoordinates, y \in OtherCoordinates, z \in OtherCoordinates,
        h \in {2, 4} }

\* boundedness and contains_bcube are applied to a pair of cubes
ApplyBoundedness ==
    /\ FnIdle /\ Fresh
    /\ \E bcube \in ClassifiedCubes, other \in OtherCubes :
          fn_call' = [op |-> "boundedness", bcube |-> bcube, other |-> other,
                      result |-> boundedness(bcube, other),
                      contained |-> contains_bcube(bcube, other)]
    /\ UNCHANGED beside_fn

\* get_child is applied twice in a row to a node and the octant of a point
\* v, as get_node does at lines 188-197
ApplyGetChild ==
    /\ FnIdle
    /\ pc \in {"idle", "done"}
    /\ \E i \in 0 .. MaxNodes - 1, v \in TreePoints :
          LET id == NodeIDOf(i) IN
          /\ InRange(nodes, id)
          /\ octant(node_by_id(nodes, id).bcube, v) # NoOctant
          /\ LET o == octant(node_by_id(nodes, id).bcube, v)
                 first == get_child(nodes, id, o)
             IN fn_call' = [op |-> "get_child", id |-> id, v |-> v, octant |-> o,
                            nodes |-> nodes, first |-> first,
                            second |-> get_child(first.nodes, id, o)]
    /\ UNCHANGED beside_fn

\* make_parent_toward is applied to a node without a parent, as get_node
\* does at lines 202-205 and 213-216
ApplyMakeParentToward ==
    /\ FnIdle
    /\ pc \in {"idle", "done"}
    /\ \E i \in 0 .. MaxNodes - 1, v \in TreePoints :
          LET id == NodeIDOf(i) IN
          /\ InRange(nodes, id)
          /\ node_by_id(nodes, id).parent = None
          /\ fn_call' = [op |-> "make_parent_toward", id |-> id, v |-> v,
                         nodes |-> nodes,
                         result |-> make_parent_toward(nodes, id, v)]
    /\ UNCHANGED beside_fn

\* free_node is applied to a node maybe_free would free (lines 168-173)
ApplyFreeNode ==
    /\ FnIdle
    /\ pc \in {"idle", "done"}
    /\ \E i \in 0 .. MaxNodes - 1 :
          LET id == NodeIDOf(i) IN
          /\ InRange(nodes, id)
          /\ ShouldFree(node_by_id(nodes, id))
          /\ fn_call' = [op |-> "free_node", id |-> id, nodes |-> nodes,
                         entries |-> entries,
                         result |-> free_node(nodes, entries, root, id)]
    /\ UNCHANGED beside_fn

\* maybe_free is applied to a node of the tree, as adjust does at line 158
ApplyMaybeFree ==
    /\ FnIdle
    /\ pc \in {"idle", "done"}
    /\ \E i \in 0 .. MaxNodes - 1 :
          LET id == NodeIDOf(i) IN
          /\ InRange(nodes, id)
          /\ fn_call' = [op |-> "maybe_free", id |-> id, nodes |-> nodes,
                         entries |-> entries,
                         result |-> maybe_free(nodes, entries, root, id)]
    /\ UNCHANGED beside_fn

\* the record of the application is dropped
FnForget ==
    /\ ~FnIdle
    /\ fn_call' = NoFnCall
    /\ UNCHANGED beside_fn

\* insert, adjust and their return, between applications
FnInsert == FnIdle /\ \E val \in Vals, bcube \in InsertCubes(0) : Insert(val, bcube)

FnAdjust == FnIdle /\ \E ent_id \in 0 .. MaxEntries - 1, bcube \in FnCubes : Adjust(ent_id, bcube)

FnReturn == FnIdle /\ Return

FnNext ==
    \/ ApplyNodeID
    \/ ApplyAsVector
    \/ ApplyOctant
    \/ ApplyBoundedness
    \/ ApplyGetChild
    \/ ApplyMakeParentToward
    \/ ApplyFreeNode
    \/ ApplyMaybeFree
    \/ FnForget
    \/ FnInsert
    \/ FnAdjust
    \/ FnReturn

FnSpec == Init /\ [][FnNext]_vars

----------------------------------------------------------------------------
(* Helpers for the properties *)

\* the node an id designates, when it designates one
Live(ns, id) == InRange(ns, id)

\* number of occurrences of x in the sequence s
RECURSIVE Count(_, _)
Count(s, x) ==
    IF s = <<>> THEN 0
    ELSE (IF Head(s) = x THEN 1 ELSE 0) + Count(Tail(s), x)

\* a call of insert or adjust has completed and has not been forgotten yet
Done(op) == pc = "done" /\ call.op = op

\* a completed adjust for which get_node chose another node than the
\* entry's previous one
Relocated == Done("adjust") /\ call.new_node # call.current_node

\* the entry's previous node, as it was when the call began
OldNode == pre.nodes[as_index(call.current_node) + 1]

----------------------------------------------------------------------------
(* C1 *)

\* C1: between calls, every entry's `node` field designates a live node
\* whose contents list holds the entry's id.
C1_EntryInItsNode ==
    pc \in {"idle", "done"} =>
        \A e \in 0 .. Len(entries) - 1 :
            /\ Live(nodes, entries[e + 1].node)
            /\ Count(node_by_id(nodes, entries[e + 1].node).contents, e) >= 1

----------------------------------------------------------------------------
(* C2 *)

\* the outcome C2 describes, for the entry and node of the completed call
C2_Placed ==
    LET e == call.ent_id
        n == entries[e + 1].node
    IN /\ n = call.new_node
       /\ Live(nodes, n)
       /\ node_by_id(nodes, n).bcube = call.new_bcube
       /\ Count(node_by_id(nodes, n).contents, e) = 1
       /\ \A i \in 1 .. Len(nodes) :
             i # as_index(n) + 1 => Count(nodes[i].contents, e) = 0

\* C2: an adjust for which get_node chose a node other than the previous one
\* ends with the entry exactly once in the chosen node (same cube), in no
\* other node, and with its `node` field designating the chosen node; it
\* does not end in a panic.
C2_RelocationPlacesEntry ==
    /\ Relocated => C2_Placed
    /\ ~(pc = "panic" /\ call.op = "adjust" /\ call.new_node # None
         /\ call.new_node # call.current_node)

\* the part of C2 about calls that return
C2_ReturnedRelocationPlacesEntry == Relocated => C2_Placed

----------------------------------------------------------------------------
(* C3 *)

\* C3: after an adjust that relocates the entry, the cube stored in the entry
\* is the cube given to adjust.
C3_StoredCubeIsGivenCube ==
    Relocated => entries[call.ent_id + 1].bcube = call.bcube

----------------------------------------------------------------------------
(* C4 *)

\* C4: no operation indexes the node arena or the entry table out of range.
C4_NoOutOfRange == pc # "panic"

----------------------------------------------------------------------------
(* C5 *)

\* C5: every call of get_node returns after finitely many ascents and
\* descents: a pending get_node does not stay pending for ever (it returns,
\* or the run stops at a panic or at the bound of the model).
C5_GetNodeTerminates == (pc = "get_node") ~> (pc # "get_node")

----------------------------------------------------------------------------
(* C6 *)

\* the cube given to LooseOctree::new
InitialCube ==
    BoundingCube(vec3(0, 0, 0), (CHOOSE cfg \in Configs : cfg.min = min_dist).half)

\* C6: the node designated by `root` is the initial root node and stays in
\* the arena, and free_node is never called on it (the assertion
\* id != root never fails).
C6_RootNeverFreed ==
    /\ Live(nodes, root)
    /\ node_by_id(nodes, root).bcube = InitialCube
    /\ pc # "assert"

----------------------------------------------------------------------------
(* C7 *)

\* some node of the arena ns names id as its parent
HasChild(ns, id) == \E i \in 1 .. Len(ns) : ns[i].parent = id

\* the node in slot i (counted from 1) is not the root and holds nothing
Prunable(ns, i) ==
    /\ ns[i].parent # None
    /\ ns[i].contents = <<>>
    /\ ~HasChild(ns, NodeIDOf(i - 1))

\* the cubes of the node id and of its ancestors, following `parent` in ns
RECURSIVE ChainCubes(_, _, _)
ChainCubes(ns, id, fuel) ==
    IF fuel = 0 \/ ~InRange(ns, id) THEN {}
    ELSE {node_by_id(ns, id).bcube}
         \cup ChainCubes(ns, node_by_id(ns, id).parent, fuel - 1)

\* the completed adjust moved the last entry out of a non-root node that has
\* no children
MovedLastEntryOut ==
    /\ Relocated
    /\ OldNode.parent # None
    /\ OldNode.contents = <<call.ent_id>>
    /\ OldNode.children = NoChildren

\* C7: after adjust moved the last entry out of a childless non-root node,
\* neither that node nor any of its ancestors remains in the arena as a
\* non-root node without contents and without children.
C7_EmptyBranchPruned ==
    MovedLastEntryOut =>
        \A i \in 1 .. Len(nodes) :
            nodes[i].bcube \in ChainCubes(pre.nodes, call.current_node, Len(pre.nodes))
                => ~Prunable(nodes, i)

----------------------------------------------------------------------------
(* C8 *)

\* the centre v is within k half-edges of the centre of bcube on every axis
Within(bcube, v, k) ==
    LET diff == VSub(v, bcube.center) IN
    /\ Abs(diff.x) <= k * bcube.half_edge
    /\ Abs(diff.y) <= k * bcube.half_edge
    /\ Abs(diff.z) <= k * bcube.half_edge

\* the last call is an adjust for an entry whose node was live
AdjustOnLiveNode ==
    /\ call.op = "adjust"
    /\ InRange(pre.nodes, call.current_node)

FitsOldNode ==
    /\ AdjustOnLiveNode
    /\ Within(OldNode.bcube, call.bcube.center, 1)
    /\ 2 * call.bcube.half_edge >= OldNode.bcube.half_edge
    /\ call.bcube.half_edge <= OldNode.bcube.half_edge

----------------------------------------------------------------------------
(* C9 *)

\* the half-edge reached from h by halving while it is more than twice the
\* cube's half-edge b and still exceeds the threshold md
RECURSIVE HalvedTo(_, _, _)
HalvedTo(h, b, md) ==
    IF h > 2 * b /\ h > md THEN HalvedTo(h \div 2, b, md) ELSE h

\* an insert into the freshly constructed tree has completed
FirstInsertDone == Done("insert") /\ pre.entries = <<>>

\* C9: on a fresh tree, a cube whose centre is inside the root is placed in
\* the node reached by halving while the half-edge is more than twice the
\* cube's and exceeds min_dist; with root half-edge 8 m, min_dist 1 m and
\* the cube {(1,1,1) m, 0.5 m} (16, 2, {(2,2,2), 1} in the unit of the model)
\* that node has half-edge 1 m (2).
C9_DescendsToBestFit ==
    (/\ FirstInsertDone
     /\ call.bcube.half_edge <= InitialCube.half_edge)
        => /\ Live(nodes, entries[1].node)
           /\ node_by_id(nodes, entries[1].node).bcube.half_edge =
                 HalvedTo(InitialCube.half_edge, call.bcube.half_edge, min_dist)
           /\ (/\ InitialCube.half_edge = 16
               /\ min_dist = 2
               /\ call.bcube = BoundingCube(vec3(2, 2, 2), 1))
                 => node_by_id(nodes, entries[1].node).bcube.half_edge = 2

----------------------------------------------------------------------------
(* C10 *)

\* C10: a node made by get_child (a node with a parent) hangs under a node
\* whose half-edge is not below min_dist, so its side is not shorter than
\* half of min_dist.
C10_NoSubdivisionBelowMinDist ==
    \A i \in 1 .. Len(nodes) :
        nodes[i].parent # None =>
            /\ 2 * nodes[i].bcube.half_edge >= min_dist
            /\ 2 * (2 * nodes[i].bcube.half_edge) >= min_dist

----------------------------------------------------------------------------
(* C11 *)

\* b is h doubled some number of times (b = 2^k * h, k >= 0)
RECURSIVE IsDoubled(_, _)
IsDoubled(h, b) == h = b \/ (h < b /\ IsDoubled(2 * h, b))

\* the k with b = 2^k * h
RECURSIVE Doublings(_, _)
Doublings(h, b) == IF h >= b THEN 0 ELSE 1 + Doublings(2 * h, b)

\* the last call is an insert into the freshly constructed tree, of a cube
\* whose centre is inside the root's cube and whose half-edge is 2^k times
\* the root's, with k new nodes within the bound of the model
GrowingFirstInsert ==
    /\ call.op = "insert"
    /\ pre.entries = <<>>
    /\ Len(pre.nodes) = 1
    /\ octant(InitialCube, call.bcube.center) # NoOctant
    /\ IsDoubled(InitialCube.half_edge, call.bcube.half_edge)
    /\ 1 + Doublings(InitialCube.half_edge, call.bcube.half_edge) <= MaxNodes

\* the node in slot i (counted from 1) is the outcome of make_parent_toward
\* called on the node in slot i - 1: a top-level node of twice the half-edge
\* that has that node as its only child
GrownFrom(ns, i) ==
    /\ ns[i].parent = None
    /\ ns[i].octant = S0
    /\ ns[i].contents = <<>>
    /\ ns[i].bcube.half_edge = 2 * ns[i - 1].bcube.half_edge
    /\ \E o \in Octants :
          /\ ns[i].children[o] = NodeIDOf(i - 2)
          /\ \A q \in Octants \ {o} : ns[i].children[q] = None

\* C11: on a fresh tree, the insert of a cube whose centre is inside the
\* root's cube and whose half-edge is 2^k times the root's returns after
\* exactly k calls of make_parent_toward: the arena holds the root and k
\* more nodes, each grown from the one before it with twice its half-edge,
\* and the entry's node is the last of them (the root when k = 0).
C11_GrowsExactlyK ==
    GrowingFirstInsert =>
        LET k == Doublings(InitialCube.half_edge, call.bcube.half_edge) IN
        /\ pc = "done"
        /\ Len(nodes) = 1 + k
        /\ nodes[1] = pre.nodes[1]
        /\ \A i \in 2 .. 1 + k : GrownFrom(nodes, i)
        /\ Len(entries) = 1
        /\ entries[1].node = NodeIDOf(k)
        /\ node_by_id(nodes, entries[1].node).bcube.half_edge = call.bcube.half_edge

\* a first insert that took two calls of make_parent_toward has returned
C11_Witness ==
    /\ GrowingFirstInsert
    /\ Done("insert")
    /\ Doublings(InitialCube.half_edge, call.bcube.half_edge) = 2
    /\ Len(nodes) = 3

----------------------------------------------------------------------------
(* C12 *)

\* C12: the n-th insert returns n and stores its payload under that id; no
\* call of insert or adjust shrinks or reorders the entry table or changes
\* the payload stored under an id given out before (so the ids returned are
\* pairwise distinct and stay valid).
C12_EntryIDsStable ==
    call.op # "none" =>
        /\ Len(entries) >= Len(pre.entries)
        /\ \A i \in 1 .. Len(pre.entries) : entries[i].val = pre.entries[i].val
        /\ call.op = "adjust" => Len(entries) = Len(pre.entries)
        /\ Done("insert") =>
              /\ call.ent_id = Len(pre.entries)
              /\ Len(entries) = Len(pre.entries) + 1
              /\ entries[call.ent_id + 1].val = call.val
              /\ entries[call.ent_id + 1].bcube = call.bcube

\* the second insert returned 1 after the first entry had been relocated;
\* the two entries hold different payloads
C12_Witness ==
    /\ Done("insert")
    /\ call.ent_id = 1
    /\ entries[1].val # entries[2].val
    /\ entries[1].node # root

----------------------------------------------------------------------------
(* C13 *)

\* the entity id owns at least one component
Owns(id) == \E c \in Components : id \in components[c]

\* the sequence of ids is strictly ascending
Ascending(ids) == \A i, j \in 1 .. Len(ids) : i < j => ids[i] < ids[j]

\* C13: within one update no system's process_entity is invoked more than
\* once for an entity, the entities are visited in ascending order of id
\* and every View has Some in exactly the components stored for its id;
\* when update has returned every system was invoked exactly once for
\* every entity that owns a component and for no other.
C13_EachEntityOncePerUpdate ==
    /\ ecs_pc \in {"while", "returned"} =>
          /\ \A s \in 1 .. systems : \A id \in EntityIDs : invoked[s][id] <= 1
          /\ Ascending(visit_order)
          /\ views_ok
    /\ ecs_pc = "returned" =>
          \A s \in 1 .. systems : \A id \in EntityIDs :
              invoked[s][id] = IF Owns(id) THEN 1 ELSE 0

\* C13, termination: an update that has begun returns
C13_UpdateTerminates == (ecs_pc = "while") ~> (ecs_pc = "returned")

----------------------------------------------------------------------------
(* C14 *)

\* the i-th call of an update on an entity of n components when the bus
\* is first in, first out: stage of the components in their order, then for
\* the k-th event fired (k = 1, 2, ...) the taking of it from the bus, its
\* react by every component and then its commit by every component
ExpectedCall(n, i) ==
    IF i <= n THEN [op |-> "stage", c |-> i, event |-> NoEvent]
    ELSE LET j == i - n - 1
             k == (j \div (2 * n + 1)) + 1
             r == j % (2 * n + 1)
         IN IF r = 0 THEN [op |-> "next", c |-> 0, event |-> k]
            ELSE IF r <= n THEN [op |-> "react", c |-> r, event |-> k]
            ELSE [op |-> "commit", c |-> r - n, event |-> k]

\* C14: the calls update has made so far are stage once per component in
\* component order, and then, event by event in the order in which the
\* events were fired, react of every component followed by commit of every
\* component; an event fired by a method is taken from the bus after that
\* method ran, and update returns only with an empty bus, having taken
\* every event fired before or during this update.
C14_StageThenEventsInOrder ==
    /\ \A i \in 1 .. Len(ge_log) :
          IF ge_log[i].op = "return"
          THEN i = Len(ge_log) /\ ge_pc = "returned"
          ELSE [op |-> ge_log[i].op, c |-> ge_log[i].c, event |-> ge_log[i].event]
                  = ExpectedCall(ge_components, i)
    /\ \A i, j \in 1 .. Len(ge_log) :
          (ge_log[j].op = "next" /\ ge_log[i].fired = ge_log[j].event) => i < j
    /\ ge_pc = "returned" =>
          /\ bus = <<>>
          /\ Len(ge_log) = ge_components + ge_fired * (2 * ge_components + 1) + 1
          /\ ge_log[Len(ge_log)].op = "return"

\* an update of an entity of two components has returned after three
\* events, fired by a stage, a react and a commit
C14_Witness ==
    /\ ge_pc = "returned"
    /\ ge_components = 2
    /\ ge_fired = 3
    /\ \A op \in {"stage", "react", "commit"} :
          \E i \in 1 .. Len(ge_log) : ge_log[i].op = op /\ ge_log[i].fired # NoEvent

----------------------------------------------------------------------------
(* C15 *)

\* the last operation was an insert under a name under which a resource
\* had been stored before
DuplicateInsert ==
    /\ db_call.op = "insert"
    /\ \E i \in 1 .. Len(db_call.id2name) : db_call.id2name[i] = db_call.name

\* the last operation left its database as it was
DbUnchanged ==
    /\ name2id[db_call.db] = db_call.name2id
    /\ id2elem[db_call.db] = db_call.id2elem

\* C15: an insert under a name under which a resource is already stored
\* leaves the database unchanged: the same ids for the names and the same
\* elements.
C15_DuplicateInsertIgnored == DuplicateInsert => DbUnchanged

\* C15 for the names the name->id map holds: an insert under a name that
\* is a key of name2id leaves the database unchanged
C15_KnownKeyInsertIgnored ==
    (db_call.op = "insert" /\ contains_key(db_call.name2id, db_call.name))
        => DbUnchanged

----------------------------------------------------------------------------
(* C16 *)

\* the names that have an id in the database
KnownNames(db) == {name \in Names : contains_key(name2id[db], name)}

\* C16: the name->id map and the element vector of a database have the
\* same size and every id of the map resolves to an element; after an
\* insert under a name that had no id, get_id of the name is the number of
\* elements stored before and get_resource of that id is the element given.
C16_InsertThenLookup ==
    /\ \A db \in Dbs :
          /\ Cardinality(KnownNames(db)) = Len(id2elem[db])
          /\ \A name \in KnownNames(db) :
                get_resource(id2elem[db], get_id(name2id[db], name)) # NoElem
    /\ (db_call.op = "insert" /\ ~contains_key(db_call.name2id, db_call.name)) =>
          /\ get_id(name2id[db_call.db], db_call.name) = Len(db_call.id2elem)
          /\ get_resource(id2elem[db_call.db], Len(db_call.id2elem)) = db_call.elem

\* C16 where the assertion of insert is evaluated (the sprite Database, and
\* SharedDb in a build with debug assertions)
C16_InsertThenLookupWhenAsserted ==
    (\A db \in Dbs : AssertionEvaluated(db)) => C16_InsertThenLookup

----------------------------------------------------------------------------
(* C17 *)

\* no call is running or has failed
Quiescent == pc \in {"idle", "done"}

\* the ids of the nodes of the arena ns
NodeIDs(ns) == {NodeIDOf(i - 1) : i \in 1 .. Len(ns)}

\* C17: between calls, a populated slot children[o] of a node n designates
\* a live node whose octant field is o and whose parent field is n.
C17_ChildKnowsItsSlot ==
    Quiescent =>
        \A n \in NodeIDs(nodes) : \A o \in Octants :
            LET c == node_by_id(nodes, n).children[o] IN
            c # None =>
                /\ Live(nodes, c)
                /\ node_by_id(nodes, c).octant = o
                /\ node_by_id(nodes, c).parent = n

----------------------------------------------------------------------------
(* C18 *)

\* following parent links from id leads to the node `top` within `fuel` steps
RECURSIVE ReachesByParents(_, _, _, _)
ReachesByParents(ns, id, top, fuel) ==
    IF id = top THEN TRUE
    ELSE IF fuel = 0 \/ ~Live(ns, id) \/ node_by_id(ns, id).parent = None THEN FALSE
    ELSE ReachesByParents(ns, node_by_id(ns, id).parent, top, fuel - 1)

\* C18: between calls, the node the root field designates is the only node
\* without a parent and every node reaches it by following parent links.
C18_SinglyRooted ==
    Quiescent =>
        /\ Live(nodes, root)
        /\ {n \in NodeIDs(nodes) : node_by_id(nodes, n).parent = None} = {root}
        /\ \A n \in NodeIDs(nodes) : ReachesByParents(nodes, n, root, Len(nodes))

----------------------------------------------------------------------------
(* C19 *)

\* the last call returned and left fewer nodes than it found: free_node has
\* removed at least one node
RemovedNodes == pc = "done" /\ Len(nodes) < Len(pre.nodes)

\* C19: after a call that removed nodes, for every node s of the arena: the
\* parent of s, if any, holds s in the slot of s's octant; every populated
\* child slot of s designates a node whose parent is s; every entry in the
\* contents of s has s as its node.
C19_ArenaFixup ==
    RemovedNodes =>
        \A s \in NodeIDs(nodes) :
            LET n == node_by_id(nodes, s) IN
            /\ n.parent # None =>
                  /\ Live(nodes, n.parent)
                  /\ node_by_id(nodes, n.parent).children[n.octant] = s
            /\ \A o \in Octants :
                  n.children[o] # None =>
                      /\ Live(nodes, n.children[o])
                      /\ node_by_id(nodes, n.children[o]).parent = s
            /\ \A k \in 1 .. Len(n.contents) :
                  /\ n.contents[k] < Len(entries)
                  /\ entries[n.contents[k] + 1].node = s

----------------------------------------------------------------------------
(* C20 *)

\* the populated child slots of the arena ns, as pairs of owner and child
ChildSlots(ns) ==
    {<<n, node_by_id(ns, n).children[o]>> : n \in NodeIDs(ns), o \in Octants}
        \ {<<n, None>> : n \in NodeIDs(ns)}

\* C20: after a call in which free_node removed nodes, no populated child
\* slot designates a slot at or beyond the arena's length or a node that is
\* not the child of the slot's owner (so none still refers to a removed
\* node).
C20_NoDanglingChildSlot ==
    RemovedNodes =>
        \A sl \in ChildSlots(nodes) :
            /\ as_index(sl[2]) < Len(nodes)
            /\ node_by_id(nodes, sl[2]).parent = sl[1]

----------------------------------------------------------------------------
(* C21 *)

\* the entry f designated a live node when the last call began
WasPlaced(f) == Live(pre.nodes, pre.entries[f + 1].node)

\* C21: a completed adjust of the entry e leaves every other entry f as it
\* was: the same payload and stored cube, and a node field that designates
\* a live node with the cube of the node it designated before the call.
C21_AdjustKeepsOtherEntries ==
    Done("adjust") =>
        \A f \in 0 .. Len(pre.entries) - 1 :
            (f # call.ent_id /\ WasPlaced(f)) =>
                /\ entries[f + 1].val = pre.entries[f + 1].val
                /\ entries[f + 1].bcube = pre.entries[f + 1].bcube
                /\ Live(nodes, entries[f + 1].node)
                /\ node_by_id(nodes, entries[f + 1].node).bcube
                      = node_by_id(pre.nodes, pre.entries[f + 1].node).bcube

----------------------------------------------------------------------------
(* C22 *)

\* the cube b is the cube of octant o of the cube a: half the half-edge,
\* centred half of a's half-edge from a's centre toward the corner of o
IsOctantCube(a, o, b) ==
    /\ 2 * b.half_edge = a.half_edge
    /\ b.center = VAdd(a.center, scaled(as_vector(o), a.half_edge \div 2))

\* C22: between calls, the node a populated slot children[o] of a node n
\* designates has half of n's half-edge and is centred at
\* n.center + as_vector(o) * (n.half_edge / 2).  (Stated for the slots that
\* designate a node of the arena; the others are the subject of C20.)
C22_PowerOfTwoLadder ==
    Quiescent =>
        \A n \in NodeIDs(nodes) : \A o \in Octants :
            LET c == node_by_id(nodes, n).children[o] IN
            (c # None /\ Live(nodes, c)) =>
                IsOctantCube(node_by_id(nodes, n).bcube, o, node_by_id(nodes, c).bcube)

\* C22 for the links just made: a child that designates n as its parent
\* and sits in the slot of its octant has the cube of that octant of n
C22_LadderOfTwoWayLinks ==
    Quiescent =>
        \A n \in NodeIDs(nodes) : \A o \in Octants :
            LET c == node_by_id(nodes, n).children[o] IN
            (c # None /\ Live(nodes, c) /\ node_by_id(nodes, c).parent = n
                 /\ node_by_id(nodes, c).octant = o) =>
                IsOctantCube(node_by_id(nodes, n).bcube, o, node_by_id(nodes, c).bcube)

----------------------------------------------------------------------------
(* C23 *)

\* get_node has returned a node to the last call
GetNodeReturned == call.op # "none" /\ call.new_node # None

----------------------------------------------------------------------------
(* C24 *)

\* the octant o contains the flag b (SX, SY or SZ)
HasBit(o, b) == (o \div b) % 2 = 1

\* +1 when the octant contains the flag, -1 when it does not
Sign(o, b) == IF HasBit(o, b) THEN 1 ELSE -1

\* C24: as_vector(o) has x = +1 iff o contains SX, y = +1 iff o contains
\* SY, z = +1 iff o contains SZ, and -1 otherwise.
C24_AsVectorMatchesBits ==
    fn_call.op = "as_vector" =>
        fn_call.result = vec3(Sign(fn_call.octant, SX), Sign(fn_call.octant, SY),
                              Sign(fn_call.octant, SZ))

\* C24, second part: as_vector maps the 8 octants to 8 distinct vectors
\* with components +1 and -1
C24_AsVectorCorners ==
    fn_call.op = "as_vector" =>
        /\ \A o \in Octants \ {fn_call.octant} : as_vector(o) # fn_call.result
        /\ {fn_call.result.x, fn_call.result.y, fn_call.result.z} \subseteq {-1, 1}

----------------------------------------------------------------------------
(* C25 *)

\* C25: the cube of the child get_child returns for the octant a point is
\* classified into classifies that point as inside.
C25_ChildCoversItsOctant ==
    fn_call.op = "get_child" =>
        /\ InRange(fn_call.first.nodes, fn_call.first.id)
        /\ octant(node_by_id(fn_call.first.nodes, fn_call.first.id).bcube,
                  fn_call.v) # NoOctant

\* C25 on the octants where the SX and SZ bits agree, which as_vector maps
\* to the corner the classifier means, and for a slot that was empty
C25_ChildCoversSymmetricOctant ==
    (/\ fn_call.op = "get_child"
     /\ HasBit(fn_call.octant, SX) = HasBit(fn_call.octant, SZ)
     /\ node_by_id(fn_call.nodes, fn_call.id).children[fn_call.octant] = None) =>
        octant(node_by_id(fn_call.first.nodes, fn_call.first.id).bcube,
               fn_call.v) # NoOctant

----------------------------------------------------------------------------
(* C26 *)

Axes == {"x", "y", "z"}

\* distance along axis a from the point v to the cube b (0 when v lies
\* within the cube's extent on that axis)
AxisDist(b, v, a) ==
    IF Abs(v[a] - b.center[a]) > b.half_edge
    THEN Abs(v[a] - b.center[a]) - b.half_edge
    ELSE 0

\* the extent of cube inner lies within the extent of cube outer on every axis
CubeWithin(inner, outer) ==
    \A a \in Axes :
        /\ outer.center[a] - outer.half_edge <= inner.center[a] - inner.half_edge
        /\ inner.center[a] + inner.half_edge <= outer.center[a] + outer.half_edge

\* the cube of the node make_parent_toward was applied to
MptOldCube == node_by_id(fn_call.nodes, fn_call.id).bcube

\* the cube of the parent make_parent_toward created
MptNewCube == node_by_id(fn_call.result.nodes, fn_call.result.id).bcube

\* C26: on every axis where v lies outside id's cube, the parent created by
\* make_parent_toward(id, v) is strictly closer to v than id's cube; the
\* parent's cube contains id's cube.
C26_ParentComesCloser ==
    fn_call.op = "make_parent_toward" =>
        /\ \A a \in Axes :
              AxisDist(MptOldCube, fn_call.v, a) > 0 =>
                  AxisDist(MptNewCube, fn_call.v, a) < AxisDist(MptOldCube, fn_call.v, a)
        /\ CubeWithin(MptOldCube, MptNewCube)

\* C26, second part: the parent's cube contains id's cube
C26_ParentContainsChild ==
    fn_call.op = "make_parent_toward" => CubeWithin(MptOldCube, MptNewCube)

\* the cube of the old top is the octant cube of the slot it is linked into
C26_OldTopIsOctantCube ==
    fn_call.op = "make_parent_toward" =>
        \A o \in Octants :
            node_by_id(fn_call.result.nodes, fn_call.result.id).children[o] = fn_call.id =>
                IsOctantCube(MptNewCube, o, MptOldCube)

----------------------------------------------------------------------------
(* C27 *)

\* the flag of an axis
AxisFlag(a) == CASE a = "x" -> SX [] a = "y" -> SY [] a = "z" -> SZ

\* the slots of the parent make_parent_toward created that hold id: the
\* octant computed for id in its new parent
MptOctants ==
    {o \in Octants :
        node_by_id(fn_call.result.nodes, fn_call.result.id).children[o] = fn_call.id}

\* target_point - id.center along axis a
MptDiff(a) == fn_call.v[a] - MptOldCube.center[a]

\* C27 as stated: the axis bit of the octant computed for id in its new
\* parent is set for a positive difference and clear for a negative or
\* zero one (the classifier's tie-break).
C27_TiesGoToClearSide ==
    fn_call.op = "make_parent_toward" =>
        \A o \in MptOctants, a \in Axes :
            HasBit(o, AxisFlag(a)) <=> MptDiff(a) > 0

\* C27 (amended): make_parent_toward computes exactly one octant for id in
\* its new parent; its axis bit is clear for a negative difference and set
\* for a zero or positive one, so a tie goes to the set side, unlike the
\* classifier.
C27_TiesGoToSetSide ==
    fn_call.op = "make_parent_toward" =>
        /\ Cardinality(MptOctants) = 1
        /\ \A o \in MptOctants, a \in Axes :
              HasBit(o, AxisFlag(a)) <=> MptDiff(a) >= 0

\* make_parent_toward was applied with a tie on one axis, a negative
\* difference on another and a positive one on the third
C27_Witness ==
    /\ fn_call.op = "make_parent_toward"
    /\ \E a, b, c \in Axes : MptDiff(a) = 0 /\ MptDiff(b) < 0 /\ MptDiff(c) > 0
    /\ \A o \in MptOctants, a \in Axes :
          MptDiff(a) = 0 => HasBit(o, AxisFlag(a))

----------------------------------------------------------------------------
(* C28 *)

\* the point the classifier was applied to lies outside the cube on axis a
OctantOutside(a) ==
    Abs(fn_call.v[a] - fn_call.bcube.center[a]) > fn_call.bcube.half_edge

\* C28: octant(p) is None iff |p - center| > half_edge on some axis;
\* otherwise it is the octant whose axis bit is set iff p is strictly
\* greater than the center on that axis.
C28_OctantClassifies ==
    fn_call.op = "octant" =>
        IF \E a \in Axes : OctantOutside(a)
        THEN fn_call.result = NoOctant
        ELSE /\ fn_call.result \in Octants
             /\ \A a \in Axes :
                   HasBit(fn_call.result, AxisFlag(a))
                       <=> fn_call.v[a] > fn_call.bcube.center[a]

\* the classifier was applied to a point on a centre plane of the cube and
\* on its outer boundary, and classified it to the bit-clear side
C28_Witness ==
    /\ fn_call.op = "octant"
    /\ fn_call.result \in Octants
    /\ \E a, b \in Axes :
          /\ fn_call.v[a] = fn_call.bcube.center[a]
          /\ ~HasBit(fn_call.result, AxisFlag(a))
          /\ Abs(fn_call.v[b] - fn_call.bcube.center[b]) = fn_call.bcube.half_edge
          /\ fn_call.v[b] > fn_call.bcube.center[b]
          /\ HasBit(fn_call.result, AxisFlag(b))

----------------------------------------------------------------------------
(* C29 *)

\* the slot get_child was asked for, before the first call
GcSlotBefore == node_by_id(fn_call.nodes, fn_call.id).children[fn_call.octant]

\* the arena after the first call is the arena before it plus one node, the
\* only change to the old nodes being slot o of node id
GcAppendedOne ==
    LET before == fn_call.nodes
        after  == fn_call.first.nodes
        child  == fn_call.first.id
        k      == as_index(fn_call.id) + 1
    IN /\ Len(after) = Len(before) + 1
       /\ child = NodeIDOf(Len(before))
       /\ after[Len(after)].parent = fn_call.id
       /\ after[Len(after)].octant = fn_call.octant
       /\ after[Len(after)].children = NoChildren
       /\ after[Len(after)].contents = <<>>
       /\ after[k].children[fn_call.octant] = child
       /\ \A i \in 1 .. Len(before) :
             IF i = k
             THEN after[i] = [before[i] EXCEPT !.children[fn_call.octant] = child]
             ELSE after[i] = before[i]

\* C29: if slot o of id is populated, get_child(id, o) returns the stored
\* child and changes nothing; otherwise it appends exactly one node with
\* parent id, octant o, no children and no contents, links it into the slot
\* and returns it.  A second call returns the same NodeID and changes
\* nothing, so two consecutive calls grow the arena by the one node the
\* first call appended.
C29_GetChildIdempotent ==
    fn_call.op = "get_child" =>
        /\ IF GcSlotBefore # None
           THEN fn_call.first = [nodes |-> fn_call.nodes, id |-> GcSlotBefore]
           ELSE GcAppendedOne
        /\ fn_call.second = fn_call.first

\* get_child was called twice for an empty slot of a node that is not the
\* only one of the arena: the second call returned the child the first
\* call appended
C29_Witness ==
    /\ fn_call.op = "get_child"
    /\ GcSlotBefore = None
    /\ Len(fn_call.nodes) > 1
    /\ fn_call.second.id = NodeIDOf(Len(fn_call.nodes))
    /\ Len(fn_call.second.nodes) = Len(fn_call.nodes) + 1

\* get_child was called for a populated slot
C29_WitnessPopulated ==
    /\ fn_call.op = "get_child"
    /\ GcSlotBefore # None
    /\ fn_call.second.id = GcSlotBefore

----------------------------------------------------------------------------
(* C30 *)

\* the cube and the contents list of a node
CubeAndContents(n) == <<n.bcube, n.contents>>

\* how many nodes of the arena ns have the cube and contents list k
Occurrences(ns, k) == Cardinality({i \in 1 .. Len(ns) : CubeAndContents(ns[i]) = k})

\* free_node was applied and returned
FreeNodeReturned == fn_call.op = "free_node" /\ fn_call.result.st = "ok"

\* the node free_node was applied to
FreedNode == node_by_id(fn_call.nodes, fn_call.id)

\* C30: a call of free_node(id) that returns shortens the arena by one; the
\* collection of the surviving nodes' cubes and contents lists is the
\* previous collection minus the freed node's; when id is the last slot no
\* other node and no entry is modified.
C30_FreeNodeRemovesExactlyOne ==
    FreeNodeReturned =>
        /\ Len(fn_call.result.nodes) = Len(fn_call.nodes) - 1
        /\ \A i \in 1 .. Len(fn_call.nodes) :
              LET k == CubeAndContents(fn_call.nodes[i]) IN
              Occurrences(fn_call.result.nodes, k)
                  = Occurrences(fn_call.nodes, k)
                        - (IF k = CubeAndContents(FreedNode) THEN 1 ELSE 0)
        /\ as_index(fn_call.id) = Len(fn_call.nodes) - 1 =>
              /\ \A i \in 1 .. Len(fn_call.nodes) - 1 :
                    fn_call.result.nodes[i] = fn_call.nodes[i]
              /\ fn_call.result.entries = fn_call.entries

\* free_node was applied to a node that is not in the last slot while the
\* last node holds an entry, and returned: the last node was moved
C30_Witness ==
    /\ FreeNodeReturned
    /\ as_index(fn_call.id) < Len(fn_call.nodes) - 1
    /\ fn_call.nodes[Len(fn_call.nodes)].contents # <<>>
    /\ CubeAndContents(fn_call.nodes[Len(fn_call.nodes)]) # CubeAndContents(FreedNode)

\* free_node was applied to the node in the last slot of an arena of
\* several nodes, with entries in the tree, and returned
C30_WitnessLast ==
    /\ FreeNodeReturned
    /\ as_index(fn_call.id) = Len(fn_call.nodes) - 1
    /\ fn_call.entries # <<>>
    /\ Len(fn_call.nodes) > 2

\* every application of free_node to a node maybe_free would release, in a
\* tree between two calls, returns
C30_FreeNodeAlwaysReturns ==
    fn_call.op = "free_node" => fn_call.result.st = "ok"

----------------------------------------------------------------------------
(* C31 *)

\* what get_node, started at the stored root as insert starts it, reaches
\* for the cube of the call in the tree the call began with
FromRoot == get_node(pre.nodes, root, call.bcube, min_dist, {})

\* adjust has run get_node from the entry's node and get_node returned
AdjustReached == call.op = "adjust" /\ call.new_node # None

\* C31: the node adjust reaches with get_node started at the entry's
\* current node has the same cube as the node insert would reach for the
\* same cube with get_node started at the stored root.
C31_BestFitIndependentOfStart ==
    AdjustReached =>
        /\ FromRoot.st = "return"
        /\ node_by_id(FromRoot.nodes, FromRoot.id).bcube = call.new_bcube

\* C31 restricted to the calls for which get_node returns from both
\* starting points
C31_SameCubeWhenBothReturn ==
    (AdjustReached /\ FromRoot.st = "return") =>
        node_by_id(FromRoot.nodes, FromRoot.id).bcube = call.new_bcube


\* the cube of the node get_node reaches from the stored root
FromRootCube == node_by_id(FromRoot.nodes, FromRoot.id).bcube

\* the cube of the call is exactly half the size of one of the two nodes
\* reached: such a cube is neither too small for that node nor too big for
\* the child below it, and get_node keeps the one it meets first
HalfSizeTie ==
    \/ 2 * call.bcube.half_edge = FromRootCube.half_edge
    \/ 2 * call.bcube.half_edge = call.new_bcube.half_edge

\* C31 for the cubes that are not exactly half the size of a node reached:
\* get_node started at the entry's node and get_node started at the stored
\* root reach nodes of the same cube.
C31_SameCubeOffTheTie ==
    (AdjustReached /\ FromRoot.st = "return" /\ ~HalfSizeTie) =>
        FromRootCube = call.new_bcube

----------------------------------------------------------------------------
(* C32 *)

\* the extreme corner of the cube `other` of the call: center - half_edge on
\* all axes for sign = -1, center + half_edge for sign = 1
Corner(sign) ==
    [a \in Axes |-> fn_call.other.center[a] + sign * fn_call.other.half_edge]

\* the corner lies beyond the outer faces of the cube `self` of the call
CornerOutside(sign) ==
    \E a \in Axes :
        Abs(Corner(sign)[a] - fn_call.bcube.center[a]) > fn_call.bcube.half_edge

\* the corner lies strictly within the outer faces of the cube `self`
CornerStrictlyInside(sign) ==
    \A a \in Axes :
        Abs(Corner(sign)[a] - fn_call.bcube.center[a]) < fn_call.bcube.half_edge

\* the octant a corner that is not outside is classified into: the axis bit
\* is set iff the corner is strictly beyond the centre on that axis
CornerOctant(sign) ==
    CHOOSE o \in Octants :
        \A a \in Axes :
            HasBit(o, AxisFlag(a)) <=> Corner(sign)[a] > fn_call.bcube.center[a]

\* C32: boundedness is Octant(o) iff both extreme corners of other are
\* classified into the same octant o, Minimal iff both are classified but
\* into different octants, None iff at least one corner is outside self;
\* contains_bcube is true iff both corners are strictly inside self, and
\* then boundedness is not None.
C32_BoundednessOfCorners ==
    fn_call.op = "boundedness" =>
        /\ fn_call.result.kind = "None" <=> (CornerOutside(-1) \/ CornerOutside(1))
        /\ fn_call.result.kind = "Minimal" <=>
              /\ ~CornerOutside(-1) /\ ~CornerOutside(1)
              /\ CornerOctant(-1) # CornerOctant(1)
        /\ \A o \in Octants :
              fn_call.result = Boundedness("Octant", o) <=>
                  /\ ~CornerOutside(-1) /\ ~CornerOutside(1)
                  /\ CornerOctant(-1) = o /\ CornerOctant(1) = o
        /\ fn_call.result.kind \in {"None", "Minimal", "Octant"}
        /\ fn_call.contained <=> (CornerStrictlyInside(-1) /\ CornerStrictlyInside(1))
        /\ fn_call.contained => fn_call.result.kind # "None"

\* boundedness was applied to a cube across the centre planes of self, with
\* one corner on an outer face: Minimal, and not contained
C32_Witness ==
    /\ fn_call.op = "boundedness"
    /\ fn_call.result.kind = "Minimal"
    /\ ~fn_call.contained
    /\ \E a \in Axes :
          Abs(Corner(1)[a] - fn_call.bcube.center[a]) = fn_call.bcube.half_edge

\* boundedness was applied to a cube contained in one octant of self
C32_WitnessOctant ==
    /\ fn_call.op = "boundedness"
    /\ fn_call.result.kind = "Octant"
    /\ fn_call.contained

\* boundedness was applied to a cube whose far corner is inside self and
\* whose near corner is not
C32_WitnessNone ==
    /\ fn_call.op = "boundedness"
    /\ fn_call.result.kind = "None"
    /\ CornerOutside(-1) /\ ~CornerOutside(1)

----------------------------------------------------------------------------
(* C33 *)

\* load has run on asset id, with the RefCell free
Loaded == asset_call.op = "load" /\ ~asset_call.borrowed

\* the asset load was called for was a not-yet-loaded sprite sheet
WasAbsentSheet ==
    /\ asset_call.id < Len(asset_call.by_id)
    /\ asset_call.by_id[asset_call.id + 1].kind = "SpriteSheetAbsent"

\* C33: load(id) on a not-yet-loaded sprite sheet turns it into a loaded
\* sheet or, when loading its files fails, leaves the asset not yet loaded
\* with its descriptor; load on another kind of asset or an unknown id
\* changes nothing.
C33_FailedLoadKeepsDescriptor ==
    Loaded =>
        IF WasAbsentSheet /\ asset_call.ok
        THEN by_id = [asset_call.by_id EXCEPT ![asset_call.id + 1] =
                         SpriteSheet(asset_call.by_id[asset_call.id + 1].of)]
        ELSE by_id = asset_call.by_id

\* C33 without the failing loads: a successful load replaces the
\* descriptor by its sheet and nothing else; load on another kind of asset
\* or an unknown id changes nothing
C33_LoadElsewhereChangesNothing ==
    (Loaded /\ (asset_call.ok \/ ~WasAbsentSheet)) =>
        IF WasAbsentSheet
        THEN by_id = [asset_call.by_id EXCEPT ![asset_call.id + 1] =
                         SpriteSheet(asset_call.by_id[asset_call.id + 1].of)]
        ELSE by_id = asset_call.by_id

\* a failed load leaves the PlaceHolder in the slot
C33_FailedLoadLeavesPlaceHolder ==
    (Loaded /\ WasAbsentSheet /\ ~asset_call.ok) =>
        by_id = [asset_call.by_id EXCEPT ![asset_call.id + 1] = PlaceHolder]

----------------------------------------------------------------------------
(* C34 *)

\* the node has a populated child slot
HasChildSlot(n) == \E o \in Octants : n.children[o] # None

\* the node holds an entry or has a populated child slot
Occupied(n) == n.contents # <<>> \/ HasChildSlot(n)

\* how many nodes of the arena ns are occupied
OccupiedCount(ns) == Cardinality({i \in 1 .. Len(ns) : Occupied(ns[i])})

\* how many nodes of the arena ns have the contents list ct
ContentsCount(ns, ct) == Cardinality({i \in 1 .. Len(ns) : ns[i].contents = ct})

\* the node maybe_free was applied to
MaybeFreedNode == node_by_id(fn_call.nodes, fn_call.id)

\* C34: maybe_free(id) leaves the whole tree unchanged when id has no
\* parent, non-empty contents or a populated child slot; it never frees a
\* node with non-empty contents or a populated child slot: every contents
\* list that is not empty is still there and no occupied node is gone.
C34_MaybeFreeSparesOccupiedNodes ==
    fn_call.op = "maybe_free" =>
        /\ (MaybeFreedNode.parent = None \/ Occupied(MaybeFreedNode)) =>
              /\ fn_call.result.st = "ok"
              /\ fn_call.result.nodes = fn_call.nodes
              /\ fn_call.result.entries = fn_call.entries
        /\ OccupiedCount(fn_call.result.nodes) >= OccupiedCount(fn_call.nodes)
        /\ \A i \in 1 .. Len(fn_call.nodes) :
              fn_call.nodes[i].contents # <<>> =>
                  ContentsCount(fn_call.result.nodes, fn_call.nodes[i].contents)
                      = ContentsCount(fn_call.nodes, fn_call.nodes[i].contents)

\* maybe_free was applied to a node that has a parent and no contents but
\* a populated child slot, in a tree that holds a node it would release
C34_Witness ==
    /\ fn_call.op = "maybe_free"
    /\ MaybeFreedNode.parent # None
    /\ MaybeFreedNode.contents = <<>>
    /\ HasChildSlot(MaybeFreedNode)
    /\ fn_call.result.nodes = fn_call.nodes
    /\ \E i \in 1 .. Len(fn_call.nodes) :
          fn_call.nodes[i].parent # None /\ ~Occupied(fn_call.nodes[i])

\* maybe_free was applied to a node it releases while another node holds
\* an entry
C34_WitnessFreed ==
    /\ fn_call.op = "maybe_free"
    /\ Len(fn_call.result.nodes) < Len(fn_call.nodes)
    /\ \E i \in 1 .. Len(fn_call.nodes) : fn_call.nodes[i].contents # <<>>

----------------------------------------------------------------------------
(* C35 *)

\* the 32 bits of u32::MAX = 2^32 - 1
U32Max == -1

\* C35: for every index i < 2^32 - 1 the NodeID new_node makes of i, the
\* 32-bit complement of i, is not the 'no node' pattern 0, as_index
\* recovers i from it, and no other index yields the same NodeID.
C35_NodeIDEncoding ==
    (fn_call.op = "node_id" /\ fn_call.idx # U32Max) =>
        /\ fn_call.id # None
        /\ fn_call.id + fn_call.idx = -1
        /\ fn_call.index = fn_call.idx
        /\ \A other \in IndexPatterns \ {fn_call.idx} : NodeIDOf(other) # fn_call.id

\* the NodeID of the index 2^31 - 1, the largest whose complement has the
\* top bit set, was made and its index recovered
C35_Witness ==
    /\ fn_call.op = "node_id"
    /\ fn_call.idx = 2147483647
    /\ fn_call.id = -2147483647 - 1
    /\ fn_call.index = 2147483647

\* the index the claim leaves out: the NodeID of u32::MAX is the 'no node'
\* pattern
C35_MaxIndexIsNone ==
    (fn_call.op = "node_id" /\ fn_call.idx = U32Max) => fn_call.id = None

====
